---- MODULE Spec2Model ----
(***************************************************************************)
(* Session orchestrator of the voice ordering server (src/server.js): one  *)
(* Twilio media-stream socket, the speech-endpoint socket it opens per     *)
(* call, the order built by tool calls, the turn-taking flags, the timers  *)
(* the handlers schedule, and the finalization paths that call logOrder.   *)
(* Times are in milliseconds; prices are in cents.                         *)
(***************************************************************************)
EXTENDS Integers, Sequences, FiniteSets, Bags, TLC

\* ------------------------------------------------------------------ bounds
MaxQty == 5         \* largest quantity a single order line is driven to
MaxLines == 2       \* most order lines the environment builds
MaxTimers == 2      \* most timers pending at once
MaxTicks == 2       \* clock horizon, in units of a specification's longest step
MaxStarts == 2      \* most 'start' events on one socket
MaxChain == 4       \* most consecutive failures the environment injects on one path
MaxChunks == 4      \* most 'media' events where the order of audio is followed
MaxOverflow == 2    \* 'media' events beyond the queue's capacity

\* ------------------------------------------------------- program constants
MIN_DEBOUNCE_MS == 800
InitialSilencePeriod == 3000
StartSilencePeriod == 5000
GreetingAllowMs == 2000
GreetingFallbackDelay == 300
GreetingRetryDelay == 300
sheetsMaxRetries == 3
maxGreetingAttempts == 3
GreetingFallbackWindow == 1500
PostToolDelay == 100
ItemResponseDelay == 200
maxDeliveryRetries == 5
DeliveryRetryDelay == 50
DeliveryCheckDelay == 500
maxAddressRetries == 5
AddressRetryDelay == 100
AddressResetDelay == 200
maxNameRetries == 5
ConfirmDelay == 2000
ToolOnlyDelay == 100
RateLimitBuffer == 1000
RateLimitWait == 5000
ErrorRecoveryDelay == 500
LoopWindowMs == 10000
SimilarityPct == 75
MaxRecentResponses == 10
MaxQueuedChunks == 100
maxRetries == 3
RetryBaseDelay == 1000
RetryCapDelay == 5000
OpenReconnectDelay == 2000
ErrorReconnectDelay == 1000
StaleOrderMs == 600000
SweepInterval == 300000

\* Date.now() at the first event: far enough from 0 that an unset (0)
\* timestamp is older than every window of the program.
Epoch == 10 * LoopWindowMs

Null == "null"

\* ------------------------------------------------------------ JS helpers
\* truthiness of a string-or-null value
Truthy(s) == s # Null /\ s # ""

\* String.prototype.toLowerCase on the strings the environment sends
ToLowerCase(s) ==
  CASE s = "Pepperoni Pizza" -> "pepperoni pizza"
    [] s = "What" -> "what"
    [] s = "PICKUP" -> "pickup"
    [] s = "Delivery" -> "delivery"
    [] OTHER -> s

\* String.prototype.trim on the strings the environment sends
Trim(s) ==
  CASE s = " 12 Main St " -> "12 Main St"
    [] s = "   " -> ""
    [] OTHER -> s

\* /^\d+$/.test(s)
IsDigits(s) == s \in {"46031", "12"}

\* --------------------------------------------------------------- the menu
\* getMenu(), two of its entries (prices in cents, sizes small and large
\* kept): items with sizes carry no flat price, single-size items do
DefaultMenu ==
  ("pepperoni pizza" :> [sizes |-> <<"small", "large">>, price |-> 0,
                         priceMap |-> ("small" :> 1499 @@ "large" :> 2099)])
  @@ ("soda" :> [sizes |-> <<"regular">>, price |-> 299,
                 priceMap |-> ("regular" :> 299)])

\* parseMenuFromSheets(): rows item|size|price, no flat price, price 0 kept
SheetMenu ==
  ("pepperoni pizza" :> [sizes |-> <<"small", "large">>, price |-> 0,
                         priceMap |-> ("small" :> 1499 @@ "large" :> 2099)])
  @@ ("water" :> [sizes |-> <<"regular">>, price |-> 0,
                  priceMap |-> ("regular" :> 0)])

MenuKinds == {"default", "sheet"}
MenuOf(m) == IF m = "sheet" THEN SheetMenu ELSE DefaultMenu

\* for (const menuItem in menu): keys in insertion order
MenuKeys(m) ==
  IF m = "sheet" THEN <<"pepperoni pizza", "water">>
  ELSE <<"pepperoni pizza", "soda">>

\* first key equal to the requested name ignoring case, or Null
FindMenuItem(m, name) ==
  LET hits == {i \in 1..Len(MenuKeys(m)) :
                 ToLowerCase(MenuKeys(m)[i]) = ToLowerCase(name)}
  IN IF hits = {} THEN Null
     ELSE MenuKeys(m)[CHOOSE i \in hits : \A j \in hits : i <= j]

\* priceMap[size] as a JS lookup: 0 when the key is absent
PriceMapGet(data, size) ==
  IF size \in DOMAIN data.priceMap THEN data.priceMap[size] ELSE 0

\* response.output_item.done: size price, else flat price, else default size
ResolvePriceItemDone(data, size) ==
  IF Truthy(size) /\ PriceMapGet(data, size) # 0 THEN PriceMapGet(data, size)
  ELSE IF data.price # 0 THEN data.price
  ELSE LET defaultSize == IF Len(data.sizes) > 0 THEN data.sizes[1]
                          ELSE "regular"
       IN PriceMapGet(data, defaultSize)

\* response.content_part.added: size price, else flat price, else 0
ResolvePriceContentPart(data, size) ==
  IF Truthy(size) /\ PriceMapGet(data, size) # 0 THEN PriceMapGet(data, size)
  ELSE IF data.price # 0 THEN data.price
  ELSE 0

\* -------------------------------------------------------------- the order
\* a faulty 'start': the new order is born confirmed
FreshOrderConfirmed ==
  [items |-> <<>>, deliveryMethod |-> Null, address |-> Null,
   customerName |-> Null, customerPhone |-> Null, paymentMethod |-> Null,
   confirmed |-> TRUE, logged |-> FALSE]

\* the order record the 'start' handler makes
FreshOrder ==
  [items |-> <<>>, deliveryMethod |-> Null, address |-> Null,
   customerName |-> Null, customerPhone |-> Null, paymentMethod |-> Null,
   confirmed |-> FALSE, logged |-> FALSE]

\* (size || 'regular')
SizeOrRegular(size) == IF Truthy(size) THEN size ELSE "regular"

\* items.findIndex(same name ignoring case, same size); 0 when none
ExistingItemIndex(items, itemName, size) ==
  LET hits == {i \in 1..Len(items) :
                 /\ ToLowerCase(items[i].name) = ToLowerCase(itemName)
                 /\ SizeOrRegular(items[i].size) = SizeOrRegular(size)}
  IN IF hits = {} THEN 0 ELSE CHOOSE i \in hits : \A j \in hits : i <= j

\* a faulty merge: every add appends a line
MergeItemAlwaysAppend(items, itemName, size, quantity, itemPrice) ==
  Append(items, [name |-> itemName, size |-> SizeOrRegular(size),
                 quantity |-> quantity, price |-> itemPrice])

\* quantity += on the existing line, else push a new line
MergeItem(items, itemName, size, quantity, itemPrice) ==
  LET i == ExistingItemIndex(items, itemName, size)
  IN IF i > 0 THEN [items EXCEPT ![i].quantity = @ + quantity]
     ELSE Append(items, [name |-> itemName, size |-> SizeOrRegular(size),
                         quantity |-> quantity, price |-> itemPrice])

\* items.filter(item => item.name && (item.price || 0) > 0)
PricedItems(items) == SelectSeq(items, LAMBDA it : Truthy(it.name) /\ it.price > 0)

\* items.filter(item => item.name && item.name.length > 0)
NamedItems(items) == SelectSeq(items, LAMBDA it : Truthy(it.name))

\* the completeness checks of the confirm timer and the 'stop' handler
HasName(o) == Truthy(o.customerName) /\ Trim(o.customerName) # ""
HasDeliveryMethod(o) == Truthy(o.deliveryMethod)
HasAddress(o) ==
  o.deliveryMethod # "delivery" \/ (Truthy(o.address) /\ Trim(o.address) # "")

\* ------------------------------------------------------------------ state
VARIABLES
  wsOpen,                      \* the Twilio socket of this connection is open
  streamSid,                   \* closure variable; 0 is null
  order,                       \* closure variable: sid of the order object; 0 is null
  callCount,                   \* 'start' events seen (names the next streamSid)
  orders,                      \* the order objects, by the sid they were made for
  activeOrders,                \* keys present in the activeOrders map
  lastResponseTimestamps,      \* map streamSid -> time; 0 when absent
  openaiClient,                \* "null" | "connecting" | "open" | "unconfigured" | "errored" | "closed"
  clientSid,                   \* sid captured by the client's handlers
  menu,                        \* menu captured by the client's handlers
  connectPending,              \* connectToOpenAI calls not yet settled: [sid, via, n]
  openaiReady,
  initialGreetingTriggered,
  responseInProgress,
  userIsSpeaking,
  greetingCompletedTimestamp,
  postGreetingSilencePeriod,
  consecutiveSimilarResponses,
  lastAIResponse,              \* words of the last tracked utterance; <<>> is null
  lastAIResponseTimestamp,
  recentResponses,             \* number of entries kept (at most 10)
  now,                         \* Date.now()
  timers,                      \* bag of pending setTimeout callbacks
  epResponse,                  \* endpoint: "none" | "active" | "cancelPending"
  epGreetingEcho,              \* endpoint: greeting item not yet echoed back
  respWhileSpeaking,           \* the endpoint's response was created while userIsSpeaking
  respCancelSent,              \* response.cancel was sent for the endpoint's response
  createdAt,                   \* ms since the greeting anchor at the last response.created; -1 if none
  createdOutcome,              \* what the last response.created handler saw and did
  audioToCaller,               \* kinds of response whose audio deltas reached the caller
  lastCreateAt,                \* time of the last response.create sent; -1 if none
  createGap,                   \* gap between the last two response.create sent; -1 if fewer
  logOrderCalls,               \* arguments of every logOrder invocation
  loggedFlips,                 \* per sid: times order.logged went false -> true
  refusedApplied,              \* <<tool, event>> of calls that had to be refused yet changed the order
  accepted,                    \* accepted add_item_to_order calls: <<sid, name, size>> -> quantity sum
  epCalls,                     \* endpoint: the add_item_to_order call still to surface through its other event, and the quantity sums with one credit per call
  addressCalled,               \* sids for which set_address came with a non-empty address
  lastUtterance,               \* the last completed utterance and what the handler did
  loopBreakCount,              \* corrective messages injected by the last utterance handler
  preConnectionAudioQueue,     \* caller audio chunks held back, oldest first
  chunkCount,                  \* 'media' events received on the socket (names the next chunk)
  audioSent,                   \* input_audio_buffer.append messages sent: each the chunks it carries
  startSaw,                    \* what the last 'start' handler found before resetting
  startedAt,                   \* per sid: Date.now() at its 'start'
  reconnectChain,              \* connectToOpenAI calls made by failure paths since the last session.updated
  stopSentToTwilio,            \* the orchestrator wrote a 'stop' event to the Twilio socket
  sweepsDone,                  \* runs of the periodic stale-order sweep
  epSessionPending,            \* endpoint: session.update taken, session.updated not yet delivered
  peerWsOpen,                  \* a second connection: its Twilio socket is open
  peerStreamSid,               \* a second connection: its closure variable streamSid; 0 is null
  peerUserIsSpeaking,          \* a second connection: its userIsSpeaking
  peerStep,                    \* flips at every event handled by the second connection
  orphanClient,                \* a socket replaced while OPEN is still open and delivers its events
  confirmCalled,               \* sids for whose order a confirm_order tool call was processed
  sinks,                       \* what the logging sinks answer to a call now
  epSystemEcho,                \* endpoint: texts of injected system messages not yet echoed back
  epSpeech,                    \* endpoint: "stopped" once speech_stopped was sent for the running turn, else "idle"
  greetingSends,               \* greeting system messages sent: <<sid, attempt>> of each
  orphanSessionPending,        \* a replaced socket that was not closed still owes its session.updated
  sheetsCall                   \* the running call of logOrderToGoogleSheets: position, attempt, appends made, delays waited, result

vars ==
  <<wsOpen, streamSid, order, callCount, orders, activeOrders,
    lastResponseTimestamps, openaiClient, clientSid, menu, connectPending,
    openaiReady, initialGreetingTriggered, responseInProgress, userIsSpeaking,
    greetingCompletedTimestamp, postGreetingSilencePeriod,
    consecutiveSimilarResponses, lastAIResponse, lastAIResponseTimestamp,
    recentResponses, now, timers, epResponse, epGreetingEcho,
    respWhileSpeaking, respCancelSent, createdAt, createdOutcome,
    audioToCaller, lastCreateAt, createGap, logOrderCalls,
    loggedFlips, refusedApplied, accepted, epCalls, addressCalled,
    lastUtterance,
    loopBreakCount, preConnectionAudioQueue, chunkCount, audioSent, startSaw,
    startedAt, reconnectChain, stopSentToTwilio, sweepsDone,
    epSessionPending, peerWsOpen, peerStreamSid, peerUserIsSpeaking,
    peerStep, orphanClient, confirmCalled, sinks, epSystemEcho, epSpeech,
    greetingSends, orphanSessionPending, sheetsCall>>

twilioVars == <<wsOpen, streamSid, order, callCount>>
orderVars == <<orders, activeOrders>>
clientVars == <<openaiClient, clientSid, menu, connectPending, openaiReady,
                initialGreetingTriggered>>
greetVars == <<greetingCompletedTimestamp, postGreetingSilencePeriod>>
loopVars == <<consecutiveSimilarResponses, lastAIResponse,
              lastAIResponseTimestamp, recentResponses>>
epVars == <<epResponse, epGreetingEcho, respWhileSpeaking, respCancelSent>>
createdObs == <<createdAt, createdOutcome>>
createObs == <<lastCreateAt, createGap>>
logObs == <<logOrderCalls, loggedFlips>>
toolObs == <<refusedApplied, accepted, epCalls, addressCalled>>
loopObs == <<lastUtterance, loopBreakCount>>
mediaVars == <<preConnectionAudioQueue, chunkCount, audioSent>>
callObs == <<startSaw, startedAt>>
failObs == <<reconnectChain, stopSentToTwilio>>
peerVars == <<peerWsOpen, peerStreamSid, peerUserIsSpeaking, peerStep>>
sideVars == <<peerVars, orphanClient, confirmCalled, sinks, epSystemEcho,
              epSpeech, greetingSends, orphanSessionPending, sheetsCall>>
restVars == <<mediaVars, callObs, failObs, sweepsDone, sideVars>>
sessionVars == <<restVars, epSessionPending>>

\* no call of logOrderToGoogleSheets is running
NoSheetsCall ==
  [pc |-> "idle", configured |-> FALSE, items |-> 0, rowValid |-> FALSE,
   attempt |-> 0,
   appends |-> <<>>, delays |-> <<>>, result |-> "none"]

NoCreated ==
  [speaking |-> FALSE, attempted |-> FALSE, cancel |-> FALSE,
   inProgress |-> FALSE, heard |-> "idle"]
NoUtterance == [text |-> <<>>, prev |-> <<>>, age |-> 0, flagged |-> FALSE]
\* no connectToOpenAI call has been made by a failure path
NoReconnects == [via \in {"retry", "errorEvent", "openFailure"} |-> 0]
NoStart == [items |-> 0, confirmed |-> FALSE, logged |-> FALSE,
            named |-> FALSE, userIsSpeaking |-> FALSE,
            responseInProgress |-> FALSE, openaiReady |-> FALSE,
            initialGreetingTriggered |-> FALSE, greeted |-> FALSE,
            queued |-> 0, tracked |-> FALSE, similar |-> 0, recent |-> 0]

Init ==
  /\ wsOpen = TRUE
  /\ streamSid = 0
  /\ order = 0
  /\ callCount = 0
  /\ orders = <<>>
  /\ activeOrders = {}
  /\ lastResponseTimestamps = [s \in {0} |-> 0]
  /\ openaiClient = "null"
  /\ clientSid = 0
  /\ menu = "default"
  /\ connectPending = {}
  /\ openaiReady = FALSE
  /\ initialGreetingTriggered = FALSE
  /\ responseInProgress = FALSE
  /\ userIsSpeaking = FALSE
  /\ greetingCompletedTimestamp = 0
  /\ postGreetingSilencePeriod = InitialSilencePeriod
  /\ consecutiveSimilarResponses = 0
  /\ lastAIResponse = <<>>
  /\ lastAIResponseTimestamp = 0
  /\ recentResponses = 0
  /\ now = Epoch
  /\ timers = EmptyBag
  /\ epResponse = "none"
  /\ epGreetingEcho = FALSE
  /\ respWhileSpeaking = FALSE
  /\ respCancelSent = FALSE
  /\ createdAt = -1
  /\ createdOutcome = NoCreated
  /\ audioToCaller = {}
  /\ lastCreateAt = -1
  /\ createGap = -1
  /\ logOrderCalls = <<>>
  /\ loggedFlips = <<>>
  /\ refusedApplied = {}
  /\ accepted = <<>>
  /\ epCalls = [pending |-> <<>>, expected |-> <<>>]
  /\ addressCalled = {}
  /\ lastUtterance = NoUtterance
  /\ loopBreakCount = 0
  /\ preConnectionAudioQueue = <<>>
  /\ chunkCount = 0
  /\ audioSent = <<>>
  /\ startSaw = NoStart
  /\ startedAt = <<>>
  /\ reconnectChain = NoReconnects
  /\ stopSentToTwilio = FALSE
  /\ sweepsDone = 0
  /\ epSessionPending = FALSE
  /\ peerWsOpen = TRUE
  /\ peerStreamSid = 0
  /\ peerUserIsSpeaking = FALSE
  /\ peerStep = FALSE
  /\ orphanClient = FALSE
  /\ confirmCalled = {}
  /\ sinks = [sheets |-> "ok", pos |-> "ok"]
  /\ epSystemEcho = {}
  /\ epSpeech = "idle"
  /\ greetingSends = <<>>
  /\ orphanSessionPending = FALSE
  /\ sheetsCall = NoSheetsCall

\* ------------------------------------------------------- shared machinery
\* the message handlers of the current client run: its socket is open and
\* its listeners are attached (they are removed before every local close)
ClientLive == openaiClient = "open"

\* readyState OPEN: with a session, or open without a configured one
IsOpen == openaiClient \in {"open", "unconfigured"}

\* the endpoint has taken the session configuration and the caller's audio
\* can reach it: it emits the events of a conversation
InSession == ClientLive /\ openaiReady /\ wsOpen

\* safeSendToOpenAI: true exactly when the client exists and is OPEN
safeSendToOpenAI == IsOpen

\* map lookup "get(k) || 0"
TimestampOf(k) ==
  IF k \in DOMAIN lastResponseTimestamps THEN lastResponseTimestamps[k] ELSE 0

\* shouldDebounceResponse: true when the last allowed call is < 800 ms old
shouldDebounceResponse(k) == now - TimestampOf(k) < MIN_DEBOUNCE_MS

\* the map after shouldDebounceResponse(k): stamped only when it returned false
DebounceStamp(k) ==
  IF shouldDebounceResponse(k) THEN lastResponseTimestamps
  ELSE (k :> now) @@ lastResponseTimestamps


\* a response.create went out on the client socket, from the sender src
NoteCreate(src) ==
  /\ lastCreateAt' = now
  /\ createGap' = IF lastCreateAt < 0 THEN -1 ELSE now - lastCreateAt

Timer(kind, delay, n) == [kind |-> kind, due |-> now + delay, sid |-> clientSid, n |-> n]
Schedule(t) == timers' = timers (+) SetToBag({t})
Due(kind) == {t \in BagToSet(timers) : t.kind = kind /\ t.due <= now}
Fired(t) == timers (-) SetToBag({t})
CanSchedule == BagCardinality(timers) < MaxTimers

\* the clock advances by d; a callback that is due runs before it does
Tick(d, unit) ==
  /\ now + d <= Epoch + MaxTicks * unit
  /\ \A t \in BagToSet(timers) : t.due > now
  /\ now' = now + d
  /\ UNCHANGED <<twilioVars, orderVars, lastResponseTimestamps, clientVars,
                 responseInProgress, userIsSpeaking, greetVars, loopVars,
                 timers, epVars, createdObs, audioToCaller, createObs, logObs,
                 toolObs, loopObs, sessionVars>>

\* ------------------------------------------------------ connection set-up
\* what a 'start' handler finds before it resets anything
SeenByStart ==
  LET o == IF order # 0 THEN orders[order] ELSE FreshOrder IN
  [items |-> Len(o.items), confirmed |-> o.confirmed, logged |-> o.logged,
   named |-> Truthy(o.customerName), userIsSpeaking |-> userIsSpeaking,
   responseInProgress |-> responseInProgress, openaiReady |-> openaiReady,
   initialGreetingTriggered |-> initialGreetingTriggered,
   greeted |-> greetingCompletedTimestamp > 0,
   queued |-> Len(preConnectionAudioQueue), tracked |-> lastAIResponse # <<>>,
   similar |-> consecutiveSimilarResponses, recent |-> recentResponses]

\* the body of the 'start' handler for the stream sid: old client dropped,
\* per-call state reset, fresh order registered, connectToOpenAI started
\* (it awaits the menu)
StartCall(sid) ==
  /\ callCount' = sid
  /\ streamSid' = sid
  /\ order' = sid
  /\ orders' = (sid :> FreshOrder) @@ orders
  /\ activeOrders' = activeOrders \cup {sid}
  /\ connectPending' = connectPending \cup {[sid |-> sid, via |-> "start", n |-> 0]}
  /\ loggedFlips' = (sid :> 0) @@ loggedFlips
  /\ openaiClient' = "null"
  /\ clientSid' = 0
  /\ menu' = "default"
  /\ initialGreetingTriggered' = FALSE
  /\ preConnectionAudioQueue' = <<>>
  /\ openaiReady' = FALSE
  /\ responseInProgress' = FALSE
  /\ recentResponses' = 0
  /\ consecutiveSimilarResponses' = 0
  /\ lastAIResponse' = <<>>
  /\ lastAIResponseTimestamp' = 0
  /\ userIsSpeaking' = FALSE
  /\ greetingCompletedTimestamp' = 0
  /\ postGreetingSilencePeriod' = StartSilencePeriod
  /\ epResponse' = "none"
  /\ epGreetingEcho' = FALSE
  /\ respWhileSpeaking' = FALSE
  /\ respCancelSent' = FALSE
  /\ startSaw' = SeenByStart
  /\ startedAt' = (sid :> now) @@ startedAt
  /\ reconnectChain' = NoReconnects
  /\ epSessionPending' = FALSE
  /\ UNCHANGED <<wsOpen, lastResponseTimestamps, now, timers, createdObs,
                 audioToCaller, createObs, logOrderCalls, toolObs, loopObs,
                 chunkCount, audioSent, stopSentToTwilio, sweepsDone,
                 sideVars>>

\* Twilio 'start', the first on this media-stream socket
TwilioStart ==
  /\ wsOpen
  /\ callCount = 0
  /\ StartCall(callCount + 1)

\* Twilio 'start' again on a socket that already carried a call: the same
\* handler, a new streamSid
TwilioRestart ==
  /\ wsOpen
  /\ callCount >= 1
  /\ callCount < MaxStarts
  /\ StartCall(callCount + 1)

\* connectToOpenAI(sid, ...) up to its await: an invalid sid rejects at once;
\* a client that is OPEN is closed and forgotten
CallConnect(c) ==
  /\ connectPending' = connectPending \cup {c}
  /\ IF c.sid # 0 /\ IsOpen
     THEN /\ openaiClient' = "null"
          /\ openaiReady' = FALSE
          /\ epResponse' = "none"
          /\ epGreetingEcho' = FALSE
          /\ respWhileSpeaking' = FALSE
          /\ respCancelSent' = FALSE
          /\ epSessionPending' = FALSE
     ELSE UNCHANGED <<openaiClient, openaiReady, epVars, epSessionPending>>

\* connectToOpenAI after the await: the menu is captured and the socket made;
\* a client that opened during the await is replaced without being closed;
\* followed says the session.updated the replaced socket still owes is
\* followed
MenuFetchedFollowed(c, m, followed) ==
  /\ c \in connectPending
  /\ c.sid # 0
  /\ connectPending' = connectPending \ {c}
  /\ openaiClient' = "connecting"
  /\ clientSid' = c.sid
  /\ menu' = m
  /\ epResponse' = "none"
  /\ epGreetingEcho' = FALSE
  /\ respWhileSpeaking' = FALSE
  /\ respCancelSent' = FALSE
  /\ epSessionPending' = FALSE
  /\ orphanClient' = (orphanClient \/ openaiClient = "open")
  /\ orphanSessionPending' =
       \/ orphanSessionPending
       \/ followed /\ openaiClient = "open" /\ epSessionPending
  /\ UNCHANGED <<twilioVars, orderVars, lastResponseTimestamps, openaiReady,
                 initialGreetingTriggered, responseInProgress, userIsSpeaking,
                 greetVars, loopVars, now, timers, createdObs, audioToCaller,
                 createObs, logObs, toolObs, loopObs, mediaVars, callObs,
                 failObs, sweepsDone, peerVars, confirmCalled, sinks,
                 epSystemEcho, epSpeech, greetingSends, sheetsCall>>

\* the same with the replaced socket's events left aside
MenuFetched(c, m) == MenuFetchedFollowed(c, m, FALSE)

\* delay of the n-th retry: 1000 * 2^n, at most 5000
RetryDelay(n) ==
  IF RetryBaseDelay * 2^n < RetryCapDelay THEN RetryBaseDelay * 2^n
  ELSE RetryCapDelay

\* retryConnection with the closure's retryCount at n: one more attempt is
\* armed while n < maxRetries
RetryConnection(sid, n) ==
  IF n < maxRetries
  THEN timers' = timers (+) SetToBag({[kind |-> "retryConnection",
                                        due |-> now + RetryDelay(n + 1),
                                        sid |-> sid, n |-> n + 1]})
  ELSE UNCHANGED timers

\* connectToOpenAI rejects (invalid sid, no API key, the WebSocket
\* constructor throws) and the caller's catch runs: the 'start' handler's
\* catch retries with backoff, the retry's catch retries while attempts are
\* left, the 'error' event's catch writes a 'stop' event to the Twilio
\* socket, the 'open' handler's catch only logs
ConnectRejects(c) ==
  /\ c \in connectPending
  /\ connectPending' = connectPending \ {c}
  /\ IF c.via \in {"start", "retry"}
     THEN /\ c.n < maxRetries => CanSchedule
          /\ RetryConnection(c.sid, c.n)
     ELSE UNCHANGED timers
  /\ stopSentToTwilio' = (stopSentToTwilio \/ (c.via = "errorEvent" /\ wsOpen))
  /\ UNCHANGED <<twilioVars, orderVars, lastResponseTimestamps, openaiClient,
                 clientSid, menu, openaiReady, initialGreetingTriggered,
                 responseInProgress, userIsSpeaking, greetVars, loopVars, now,
                 epVars, createdObs, audioToCaller, createObs, logObs,
                 toolObs, loopObs, mediaVars, callObs, reconnectChain,
                 sweepsDone, epSessionPending, sideVars>>

\* the backoff callback: connectToOpenAI(streamSid, order) with the closure
\* variables as they are now
RetryConnectionFires ==
  \E t \in Due("retryConnection") :
    /\ timers' = Fired(t)
    /\ CallConnect([sid |-> streamSid, via |-> "retry", n |-> t.n])
    /\ reconnectChain' = [reconnectChain EXCEPT !["retry"] = @ + 1]
    /\ UNCHANGED <<twilioVars, orderVars, lastResponseTimestamps, clientSid,
                   menu, initialGreetingTriggered, responseInProgress,
                   userIsSpeaking, greetVars, loopVars, now, createdObs,
                   audioToCaller, createObs, logObs, toolObs, loopObs,
                   mediaVars, callObs, stopSentToTwilio, sweepsDone,
                   sideVars>>

\* client 'open': session.update is sent
OpenaiOpen ==
  /\ openaiClient = "connecting"
  /\ openaiClient' = "open"
  /\ epSessionPending' = TRUE
  /\ UNCHANGED <<twilioVars, orderVars, lastResponseTimestamps, clientSid,
                 menu, connectPending, openaiReady, initialGreetingTriggered,
                 responseInProgress, userIsSpeaking, greetVars, loopVars, now,
                 timers, epVars, createdObs, audioToCaller, createObs, logObs,
                 toolObs, loopObs, restVars>>

\* client 'open' when session.update cannot be sent (the send fails or the
\* payload cannot be built): a reconnect is armed 2 s later, uncounted; the
\* socket stays open without a configured session
OpenaiOpenFails ==
  /\ openaiClient = "connecting"
  /\ CanSchedule
  /\ reconnectChain["openFailure"] < MaxChain
  /\ openaiClient' = "unconfigured"
  /\ Schedule(Timer("openReconnect", OpenReconnectDelay, 0))
  /\ UNCHANGED <<twilioVars, orderVars, lastResponseTimestamps, clientSid,
                 menu, connectPending, openaiReady, initialGreetingTriggered,
                 responseInProgress, userIsSpeaking, greetVars, loopVars, now,
                 epVars, createdObs, audioToCaller, createObs, logObs,
                 toolObs, loopObs, sessionVars>>

\* the 2 s callback of the 'open' handler: connectToOpenAI(sid, currentOrder)
\* with the sid of the client that failed
OpenReconnectFires ==
  \E t \in Due("openReconnect") :
    /\ timers' = Fired(t)
    /\ CallConnect([sid |-> t.sid, via |-> "openFailure", n |-> 0])
    /\ reconnectChain' = [reconnectChain EXCEPT !["openFailure"] = @ + 1]
    /\ UNCHANGED <<twilioVars, orderVars, lastResponseTimestamps, clientSid,
                   menu, initialGreetingTriggered, responseInProgress,
                   userIsSpeaking, greetVars, loopVars, now, createdObs,
                   audioToCaller, createObs, logObs, toolObs, loopObs,
                   mediaVars, callObs, stopSentToTwilio, sweepsDone,
                   sideVars>>

\* client 'error' (socket level): not ready, and nothing else; the socket
\* is no longer OPEN and its 'close' follows
OpenaiSocketError ==
  /\ openaiClient \in {"connecting", "open", "unconfigured"}
  /\ openaiClient' = "errored"
  /\ openaiReady' = FALSE
  /\ epSessionPending' = FALSE
  /\ UNCHANGED <<twilioVars, orderVars, lastResponseTimestamps,
                 clientSid, menu, connectPending, initialGreetingTriggered,
                 responseInProgress, userIsSpeaking, greetVars, loopVars, now,
                 timers, epVars, createdObs, audioToCaller, createObs, logObs,
                 toolObs, loopObs, restVars>>

\* client 'close': not ready, listeners removed
OpenaiClose ==
  /\ openaiClient \in {"connecting", "open", "unconfigured", "errored"}
  /\ openaiClient' = "closed"
  /\ openaiReady' = FALSE
  /\ epResponse' = "none"
  /\ epGreetingEcho' = FALSE
  /\ respWhileSpeaking' = FALSE
  /\ respCancelSent' = FALSE
  /\ epSessionPending' = FALSE
  /\ UNCHANGED <<twilioVars, orderVars, lastResponseTimestamps, clientSid,
                 menu, connectPending, initialGreetingTriggered,
                 responseInProgress, userIsSpeaking, greetVars, loopVars, now,
                 timers, createdObs, audioToCaller, createObs, logObs,
                 toolObs, loopObs, restVars>>

\* the endpoint's 'error' event: for the current stream a check is armed 1 s
\* later
EndpointError ==
  /\ ClientLive
  /\ CanSchedule
  /\ reconnectChain["errorEvent"] < MaxChain
  /\ IF streamSid = clientSid
     THEN Schedule(Timer("errorReconnect", ErrorReconnectDelay, 0))
     ELSE UNCHANGED timers
  /\ UNCHANGED <<twilioVars, orderVars, lastResponseTimestamps, clientVars,
                 responseInProgress, userIsSpeaking, greetVars, loopVars, now,
                 epVars, createdObs, audioToCaller, createObs, logObs,
                 toolObs, loopObs, sessionVars>>

\* the 1 s callback: connectToOpenAI(streamSid, currentOrder) unless the
\* client is OPEN
ErrorReconnectFires ==
  \E t \in Due("errorReconnect") :
    /\ timers' = Fired(t)
    /\ IF ~IsOpen
       THEN /\ CallConnect([sid |-> streamSid, via |-> "errorEvent", n |-> 0])
            /\ reconnectChain' = [reconnectChain EXCEPT !["errorEvent"] = @ + 1]
       ELSE UNCHANGED <<connectPending, openaiClient, openaiReady, epVars,
                        reconnectChain, epSessionPending>>
    /\ UNCHANGED <<twilioVars, orderVars, lastResponseTimestamps, clientSid,
                   menu, initialGreetingTriggered, responseInProgress,
                   userIsSpeaking, greetVars, loopVars, now, createdObs,
                   audioToCaller, createObs, logObs, toolObs, loopObs,
                   mediaVars, callObs, stopSentToTwilio, sweepsDone,
                   sideVars>>

\* what session.updated leaves in the queue: nothing
QueueAfterFlush(q) == <<>>

\* the append messages after the flush: the whole queue joined into one
\* message, none when the queue is empty
SentAfterFlush(sent, q) == IF q = <<>> THEN sent ELSE Append(sent, q)

\* a faulty guard of the greeting: the flag is not consulted
GreetingDueAlways == streamSid = clientSid

\* if (!initialGreetingTriggered && streamSid === sid)
GreetingDue == ~initialGreetingTriggered /\ streamSid = clientSid

\* triggerGreeting(attempt) gets its message out: the client is OPEN and the
\* call is still the one of this socket
GreetingSent(sid) == IsOpen /\ streamSid = sid /\ safeSendToOpenAI

\* triggerGreeting(attempt) with base the timers it starts from: the system
\* message is sent and the anchor set, or the next attempt is armed 300 ms
\* later while attempts are left
TriggerGreeting(base, attempt, sid) ==
  IF GreetingSent(sid)
  THEN /\ greetingCompletedTimestamp' = now
       /\ epGreetingEcho' = TRUE
       /\ greetingSends' = Append(greetingSends, <<sid, attempt>>)
       /\ timers' = base
  ELSE /\ timers' = IF attempt < maxGreetingAttempts
                    THEN base (+) SetToBag({Timer("greetingRetry",
                                                  GreetingRetryDelay,
                                                  attempt + 1)})
                    ELSE base
       /\ UNCHANGED <<greetingCompletedTimestamp, epGreetingEcho,
                      greetingSends>>

\* the greeting part of 'session.updated'
GreetingOnSessionUpdated ==
  IF GreetingDue
  THEN /\ initialGreetingTriggered' = TRUE
       /\ TriggerGreeting(timers, 1, clientSid)
  ELSE UNCHANGED <<initialGreetingTriggered, greetingCompletedTimestamp,
                   epGreetingEcho, timers, greetingSends>>

\* 'session.updated': ready; the held-back audio is sent as one append and
\* the queue emptied; first time for this call the greeting system message
\* is sent and the greeting anchor set
SessionUpdated ==
  /\ ClientLive
  /\ epSessionPending
  /\ epSessionPending' = FALSE
  /\ openaiReady' = TRUE
  /\ audioSent' = SentAfterFlush(audioSent, preConnectionAudioQueue)
  /\ preConnectionAudioQueue' = QueueAfterFlush(preConnectionAudioQueue)
  /\ reconnectChain' = NoReconnects
  /\ GreetingOnSessionUpdated
  /\ UNCHANGED <<twilioVars, orderVars, lastResponseTimestamps, openaiClient,
                 clientSid, menu, connectPending, responseInProgress,
                 userIsSpeaking, postGreetingSilencePeriod, loopVars, now,
                 epResponse, respWhileSpeaking, respCancelSent,
                 createdObs, audioToCaller, createObs, logObs, toolObs,
                 loopObs, chunkCount, callObs, stopSentToTwilio, sweepsDone,
                 peerVars, orphanClient, confirmCalled, sinks, epSystemEcho,
                 epSpeech, orphanSessionPending, sheetsCall>>

\* 'session.updated' delivered by a replaced socket: the handler is the same
\* closure over the connection's variables, and its sends go to the socket
\* openaiClient names now
OrphanSessionUpdated ==
  /\ wsOpen
  /\ orphanClient
  /\ orphanSessionPending
  /\ CanSchedule
  /\ orphanSessionPending' = FALSE
  /\ openaiReady' = TRUE
  /\ audioSent' = IF safeSendToOpenAI
                  THEN SentAfterFlush(audioSent, preConnectionAudioQueue)
                  ELSE audioSent
  /\ preConnectionAudioQueue' = QueueAfterFlush(preConnectionAudioQueue)
  /\ GreetingOnSessionUpdated
  /\ UNCHANGED <<twilioVars, orderVars, lastResponseTimestamps, openaiClient,
                 clientSid, menu, connectPending, responseInProgress,
                 userIsSpeaking, postGreetingSilencePeriod, loopVars, now,
                 epResponse, respWhileSpeaking, respCancelSent,
                 createdObs, audioToCaller, createObs, logObs, toolObs,
                 loopObs, chunkCount, callObs, failObs, sweepsDone,
                 peerVars, orphanClient, confirmCalled, sinks, epSystemEcho,
                 epSpeech, epSessionPending, sheetsCall>>

\* the 300 ms callback: triggerGreeting(attempt + 1)
GreetingRetryFires ==
  \E t \in Due("greetingRetry") :
    /\ TriggerGreeting(Fired(t), t.n, t.sid)
    /\ UNCHANGED <<twilioVars, orderVars, lastResponseTimestamps, clientVars,
                   responseInProgress, userIsSpeaking,
                   postGreetingSilencePeriod, loopVars, now, epResponse,
                   respWhileSpeaking, respCancelSent, createdObs,
                   audioToCaller, createObs, logObs, toolObs, loopObs,
                   mediaVars, callObs, failObs, sweepsDone, peerVars,
                   orphanClient, confirmCalled, sinks, epSystemEcho, epSpeech,
                   orphanSessionPending, epSessionPending,
                 sheetsCall>>

\* a faulty cap: a full queue refuses the new chunk
PushCappedDropNewest(q, chunk) ==
  IF Len(q) >= MaxQueuedChunks THEN q ELSE Append(q, chunk)

\* the queue after one more chunk: beyond 100 entries the oldest goes
PushCapped(q, chunk) ==
  LET pushed == Append(q, chunk) IN
  IF Len(pushed) > MaxQueuedChunks THEN Tail(pushed) ELSE pushed

\* Twilio 'media': held back while the client is missing, not OPEN or not
\* ready; otherwise sent at once as its own append
TwilioMedia ==
  /\ wsOpen
  /\ streamSid # 0
  /\ chunkCount' = chunkCount + 1
  /\ IF ~IsOpen \/ ~openaiReady
     THEN /\ preConnectionAudioQueue' =
               PushCapped(preConnectionAudioQueue, chunkCount + 1)
          /\ UNCHANGED audioSent
     ELSE /\ audioSent' = Append(audioSent, <<chunkCount + 1>>)
          /\ UNCHANGED preConnectionAudioQueue
  /\ UNCHANGED <<twilioVars, orderVars, lastResponseTimestamps, clientVars,
                 responseInProgress, userIsSpeaking, greetVars, loopVars, now,
                 timers, epVars, createdObs, audioToCaller, createObs, logObs,
                 toolObs, loopObs, callObs, failObs, sweepsDone,
                 epSessionPending, sideVars>>

\* 'conversation.item.created' for the greeting system message: the anchor
\* is set again and the 300 ms fallback armed
GreetingItemCreated ==
  /\ ClientLive
  /\ epGreetingEcho
  /\ CanSchedule
  /\ epGreetingEcho' = FALSE
  /\ greetingCompletedTimestamp' = now
  /\ Schedule(Timer("greetingFallback", GreetingFallbackDelay, 0))
  /\ UNCHANGED <<twilioVars, orderVars, lastResponseTimestamps, clientVars,
                 responseInProgress, userIsSpeaking, postGreetingSilencePeriod,
                 loopVars, now, epResponse, respWhileSpeaking, respCancelSent,
                 createdObs, audioToCaller, createObs, logObs, toolObs,
                 loopObs, sessionVars>>

\* the fallback callback: response.create if none is in progress yet
GreetingFallbackFires ==
  \E t \in Due("greetingFallback") :
    /\ timers' = Fired(t)
    /\ IF /\ ~responseInProgress
          /\ now - greetingCompletedTimestamp < GreetingFallbackWindow
          /\ safeSendToOpenAI
          /\ streamSid = t.sid
       THEN responseInProgress' = TRUE /\ NoteCreate("greetingFallback")
       ELSE UNCHANGED <<responseInProgress, createObs>>
    /\ UNCHANGED <<twilioVars, orderVars, lastResponseTimestamps, clientVars,
                   userIsSpeaking, greetVars, loopVars, now, epVars,
                   createdObs, audioToCaller, logObs, toolObs, loopObs, sessionVars>>

\* ------------------------------------------------------------- tool calls
\* timeSinceGreeting < postGreetingSilencePeriod, Infinity when no anchor
InPostGreetingPeriod ==
  /\ greetingCompletedTimestamp > 0
  /\ now - greetingCompletedTimestamp < postGreetingSilencePeriod

\* activeOrders.get(streamSid) is defined
HasCurrentOrder == streamSid \in activeOrders

\* const { quantity = 1 } = toolInput; <<>> stands for an absent field
QuantityOf(q) == IF q = <<>> THEN 1 ELSE q[1]

\* the environment keeps orders within the bounds
WithinBounds(items, name, size, q) ==
  /\ \A i \in 1..Len(items) : items[i].quantity + QuantityOf(q) <= MaxQty
  /\ QuantityOf(q) <= MaxQty
  /\ Len(items) < MaxLines
       \/ (FindMenuItem(menu, name) # Null
           /\ ExistingItemIndex(items, FindMenuItem(menu, name), size) > 0)

\* the accepted-adds ledger after one more accepted add
Credit(key, q) ==
  IF key \in DOMAIN accepted THEN [accepted EXCEPT ![key] = @ + q]
  ELSE (key :> q) @@ accepted

\* how the endpoint surfaces a call: through this event only, through this
\* event first and the other one later, or through this event after the other
Surfacings == {"only", "first", "again"}

\* the event that is not ev
OtherEvent(ev) ==
  IF ev = "output_item.done" THEN "content_part.added" ELSE "output_item.done"

\* a call can surface again only as the call that waits to
CanSurface(ev, name, size, q, surfacing) ==
  surfacing = "again" =>
    /\ epCalls.pending # <<>>
    /\ epCalls.pending[1] = OtherEvent(ev)
    /\ <<epCalls.pending[2], epCalls.pending[3], epCalls.pending[4]>> = <<name, size, q>>

\* the endpoint's book of calls after a handler saw one: a call is credited
\* once, at the first of its events whose handler accepts it
CallsAfter(ev, name, size, q, surfacing, key, adds) ==
  LET credited == surfacing = "again" /\ epCalls.pending[5]
      credits == adds /\ ~credited
      k == <<streamSid, key, SizeOrRegular(size)>>
  IN [pending |-> IF surfacing = "first"
                  THEN <<ev, name, size, q, credits>> ELSE <<>>,
      expected |-> IF ~credits THEN epCalls.expected
                   ELSE IF k \in DOMAIN epCalls.expected
                   THEN [epCalls.expected EXCEPT ![k] = @ + QuantityOf(q)]
                   ELSE (k :> QuantityOf(q)) @@ epCalls.expected]

\* bookkeeping of a handled tool call: found says the name is on the menu
\* (the method is one of the two), price is the resolved price, changed
\* says the order was modified
ToolNote(fn, event, found, price, changed) ==
  IF /\ changed
     /\ \/ fn = "add_item_to_order" /\ (~found \/ price = 0)
        \/ fn = "set_delivery_method" /\ ~found
  THEN refusedApplied \cup {<<fn, event>>}
  ELSE refusedApplied

\* the tail of response.output_item.done: outside the post-greeting period
\* a 100 ms callback is armed for the four order tools
PostToolTail ==
  IF ~InPostGreetingPeriod
  THEN Schedule(Timer("postTool", PostToolDelay, 0))
  ELSE UNCHANGED timers

\* the 100 ms callback: debounced response.create
PostToolFires ==
  \E t \in Due("postTool") :
    /\ timers' = Fired(t)
    /\ IF InPostGreetingPeriod
       THEN UNCHANGED <<lastResponseTimestamps, responseInProgress, createObs>>
       ELSE /\ lastResponseTimestamps' = DebounceStamp(streamSid)
            /\ IF /\ ~shouldDebounceResponse(streamSid)
                  /\ ~userIsSpeaking
                  /\ ~responseInProgress
                  /\ safeSendToOpenAI
                  /\ streamSid = t.sid
               THEN responseInProgress' = TRUE /\ NoteCreate("postTool")
               ELSE UNCHANGED <<responseInProgress, createObs>>
    /\ UNCHANGED <<twilioVars, orderVars, clientVars, userIsSpeaking,
                   greetVars, loopVars, now, epVars, createdObs,
                   audioToCaller, logObs, toolObs, loopObs, sessionVars>>

\* response.output_item.done, function_call add_item_to_order
ItemDoneAddItemOf(name, size, q, surfacing) ==
  /\ InSession
  /\ CanSchedule
  /\ CanSurface("output_item.done", name, size, q, surfacing)
  /\ HasCurrentOrder => WithinBounds(orders[streamSid].items, name, size, q)
  /\ LET key == FindMenuItem(menu, name)
         price == IF key = Null THEN 0
                  ELSE ResolvePriceItemDone(MenuOf(menu)[key], size)
         adds == Truthy(name) /\ HasCurrentOrder /\ key # Null /\ price # 0
         exits == Truthy(name) /\ ~adds
     IN /\ IF adds
           THEN /\ orders' = [orders EXCEPT ![streamSid].items =
                                MergeItem(@, key, size, QuantityOf(q), price)]
                /\ accepted' = Credit(<<streamSid, key, SizeOrRegular(size)>>, QuantityOf(q))
           ELSE UNCHANGED <<orders, accepted>>
        /\ epCalls' = CallsAfter("output_item.done", name, size, q, surfacing,
                              key, adds)
        /\ UNCHANGED addressCalled
        /\ refusedApplied' = ToolNote("add_item_to_order", "output_item.done",
                                key # Null, price, adds)
        /\ IF exits THEN UNCHANGED timers ELSE PostToolTail
  /\ UNCHANGED <<twilioVars, activeOrders, lastResponseTimestamps, clientVars,
                 responseInProgress, userIsSpeaking, greetVars, loopVars, now,
                 epVars, createdObs, audioToCaller, createObs, logObs,
                 loopObs, sessionVars>>

\* the same for a call that surfaces through this event only
ItemDoneAddItem(name, size, q) == ItemDoneAddItemOf(name, size, q, "only")

\* response.content_part.added, tool_call add_item_to_order
PartAddItemOf(name, size, q, surfacing) ==
  /\ InSession
  /\ CanSchedule
  /\ CanSurface("content_part.added", name, size, q, surfacing)
  /\ HasCurrentOrder => WithinBounds(orders[streamSid].items, name, size, q)
  /\ LET key == FindMenuItem(menu, name)
         price == IF key = Null THEN 0
                  ELSE ResolvePriceContentPart(MenuOf(menu)[key], size)
         adds == HasCurrentOrder /\ Truthy(name) /\ key # Null
     IN /\ IF adds
           THEN /\ orders' = [orders EXCEPT ![streamSid].items =
                                MergeItem(@, key, size, QuantityOf(q), price)]
                /\ accepted' = Credit(<<streamSid, key, SizeOrRegular(size)>>, QuantityOf(q))
                /\ Schedule(Timer("itemResponse", ItemResponseDelay, 0))
           ELSE UNCHANGED <<orders, accepted, timers>>
        /\ epCalls' = CallsAfter("content_part.added", name, size, q, surfacing,
                              key, adds)
        /\ UNCHANGED addressCalled
        /\ refusedApplied' = ToolNote("add_item_to_order", "content_part.added",
                                key # Null, price, adds)
  /\ UNCHANGED <<twilioVars, activeOrders, lastResponseTimestamps, clientVars,
                 responseInProgress, userIsSpeaking, greetVars, loopVars, now,
                 epVars, createdObs, audioToCaller, createObs, logObs,
                 loopObs, sessionVars>>

\* the same for a call that surfaces through this event only
PartAddItem(name, size, q) == PartAddItemOf(name, size, q, "only")

\* the arguments of an add_item_to_order call as they arrive: json says
\* JSON.parse takes the string; name is the name field of the parsed object,
\* or of a string that does not parse what /"name"\s*:\s*"([^"]+)"/ finds in
\* it (Null: nothing); size and q are the other fields of the parsed object
RawArgs ==
  {[json |-> TRUE, name |-> "soda", size |-> Null, q |-> <<2>>],
   [json |-> TRUE, name |-> Null, size |-> "large", q |-> <<>>],
   [json |-> FALSE, name |-> "soda", size |-> Null, q |-> <<>>],
   [json |-> FALSE, name |-> Null, size |-> Null, q |-> <<>>]}

\* toolInput after the parsing of either handler: the parsed object, or
\* { name } recovered from the string that did not parse, or nothing that
\* has a name
ParseToolInput(raw) ==
  IF raw.json THEN [name |-> raw.name, size |-> raw.size, q |-> raw.q]
  ELSE [name |-> raw.name, size |-> Null, q |-> <<>>]

\* response.output_item.done, function_call add_item_to_order, from the
\* arguments string on
ItemDoneAddItemRaw(raw) ==
  LET toolInput == ParseToolInput(raw) IN
  IF toolInput.name = Null
  THEN InSession /\ UNCHANGED vars
  ELSE ItemDoneAddItem(toolInput.name, toolInput.size, toolInput.q)

\* response.content_part.added, tool_call add_item_to_order, from the
\* arguments string on
PartAddItemRaw(raw) ==
  LET toolInput == ParseToolInput(raw) IN
  IF toolInput.name = Null
  THEN InSession /\ UNCHANGED vars
  ELSE PartAddItem(toolInput.name, toolInput.size, toolInput.q)

\* the 200 ms callback armed by the content_part add: response.create
ItemResponseFires ==
  \E t \in Due("itemResponse") :
    /\ timers' = Fired(t)
    /\ IF /\ ~userIsSpeaking
          /\ ~responseInProgress
          /\ safeSendToOpenAI
          /\ streamSid = t.sid
       THEN responseInProgress' = TRUE /\ NoteCreate("itemResponse")
       ELSE UNCHANGED <<responseInProgress, createObs>>
    /\ UNCHANGED <<twilioVars, orderVars, lastResponseTimestamps, clientVars,
                   userIsSpeaking, greetVars, loopVars, now, epVars,
                   createdObs, audioToCaller, logObs, toolObs, loopObs, sessionVars>>

\* what the handlers leave alone when a tool call touches one order field
ToolFrame ==
  UNCHANGED <<twilioVars, activeOrders, lastResponseTimestamps, clientVars,
              responseInProgress, userIsSpeaking, greetVars, loopVars, now,
              epVars, createdObs, audioToCaller, createObs, logObs, accepted,
              epCalls,
              loopObs, sessionVars>>

\* the method is 'pickup' or 'delivery' once trimmed and lower-cased
IsValidMethod(method) ==
  ToLowerCase(Trim(method)) \in {"pickup", "delivery"}


\* the content_part validator: digits longer than 2 rejected, then only the
\* two methods accepted
PartAcceptsMethod(method) ==
  /\ Truthy(method)
  /\ ~(IsDigits(ToLowerCase(Trim(method))) /\ Len(ToLowerCase(Trim(method))) > 2)
  /\ IsValidMethod(method)

\* response.output_item.done, function_call set_delivery_method: the raw
\* value is stored
ItemDoneSetDeliveryMethod(method) ==
  /\ InSession
  /\ CanSchedule
  /\ LET sets == Truthy(method) /\ HasCurrentOrder
     IN /\ IF sets
           THEN orders' = [orders EXCEPT ![streamSid].deliveryMethod = method]
           ELSE UNCHANGED orders
        /\ refusedApplied' = ToolNote("set_delivery_method", "output_item.done",
                         IsValidMethod(method), 0,
                         sets /\ orders[streamSid].deliveryMethod # method)
  /\ PostToolTail
  /\ UNCHANGED addressCalled
  /\ ToolFrame

\* response.output_item.done, function_call set_customer_name
ItemDoneSetCustomerName(name) ==
  /\ InSession
  /\ CanSchedule
  /\ LET sets == Truthy(name) /\ HasCurrentOrder
     IN /\ IF sets
           THEN orders' = [orders EXCEPT ![streamSid].customerName = name]
           ELSE UNCHANGED orders
        /\ refusedApplied' = ToolNote("set_customer_name", "output_item.done",
                         Truthy(name), 0,
                         sets /\ orders[streamSid].customerName # name)
  /\ PostToolTail
  /\ UNCHANGED addressCalled
  /\ ToolFrame

\* response.output_item.done, function_call set_address: no branch stores
\* the address, only the response callback is armed
ItemDoneSetAddress(address) ==
  /\ InSession
  /\ CanSchedule
  /\ refusedApplied' = ToolNote("set_address", "output_item.done", Truthy(address),
                          0, FALSE)
  /\ addressCalled' = IF Truthy(address) /\ Trim(address) # "" /\ streamSid # 0
                      THEN addressCalled \cup {streamSid} ELSE addressCalled
  /\ PostToolTail
  /\ UNCHANGED orders
  /\ ToolFrame

\* response.content_part.added, tool_call set_delivery_method
PartSetDeliveryMethod(method) ==
  /\ InSession
  /\ CanSchedule
  /\ LET sets == HasCurrentOrder /\ PartAcceptsMethod(method)
         value == ToLowerCase(Trim(method))
     IN /\ IF sets
           THEN /\ orders' = [orders EXCEPT ![streamSid].deliveryMethod = value]
                /\ Schedule(Timer("deliveryResponse", 0, 0))
           ELSE UNCHANGED <<orders, timers>>
        /\ refusedApplied' = ToolNote("set_delivery_method", "content_part.added",
                         IsValidMethod(method), 0,
                         sets /\ orders[streamSid].deliveryMethod # value)
  /\ UNCHANGED addressCalled
  /\ ToolFrame

\* response.content_part.added, tool_call set_address: the trimmed address
\* is stored and the method forced to 'delivery'
PartSetAddress(address) ==
  /\ InSession
  /\ CanSchedule
  /\ LET sets == HasCurrentOrder /\ Truthy(address)
     IN /\ IF sets
           THEN /\ orders' = [orders EXCEPT
                                ![streamSid].address = Trim(address),
                                ![streamSid].deliveryMethod = "delivery"]
                /\ Schedule(Timer("addressResponse", 0, 0))
           ELSE UNCHANGED <<orders, timers>>
        /\ refusedApplied' = ToolNote("set_address", "content_part.added",
                         Truthy(address), 0,
                         sets /\ orders[streamSid].address # Trim(address))
  /\ addressCalled' = IF Truthy(address) /\ Trim(address) # "" /\ streamSid # 0
                      THEN addressCalled \cup {streamSid} ELSE addressCalled
  /\ ToolFrame

\* response.content_part.added, tool_call set_customer_name
PartSetCustomerName(name) ==
  /\ InSession
  /\ CanSchedule
  /\ LET sets == HasCurrentOrder /\ Truthy(name)
     IN /\ IF sets
           THEN /\ orders' = [orders EXCEPT ![streamSid].customerName = name]
                /\ Schedule(Timer("nameResponse", 0, 0))
           ELSE UNCHANGED <<orders, timers>>
        /\ refusedApplied' = ToolNote("set_customer_name", "content_part.added",
                         Truthy(name), 0,
                         sets /\ orders[streamSid].customerName # name)
  /\ UNCHANGED addressCalled
  /\ ToolFrame

\* what the response callbacks leave alone
CallbackFrame ==
  UNCHANGED <<twilioVars, orderVars, lastResponseTimestamps, clientVars,
              userIsSpeaking, greetVars, loopVars, now, epVars, createdObs,
              audioToCaller, logObs, toolObs, loopObs, sessionVars>>

\* ensureDeliveryResponse callback: responseInProgress is cleared, the
\* response.create sent unconditionally and a 500 ms check armed; otherwise
\* a retry in 50 ms, up to 5 attempts
DeliveryResponseFires ==
  \E t \in Due("deliveryResponse") :
    /\ IF ~userIsSpeaking /\ safeSendToOpenAI /\ streamSid = t.sid
       THEN /\ responseInProgress' = FALSE
            /\ NoteCreate("deliveryResponse")
            /\ timers' = Fired(t) (+) SetToBag({[kind |-> "deliveryCheck",
                 due |-> now + DeliveryCheckDelay, sid |-> t.sid, n |-> t.n]})
       ELSE IF t.n < maxDeliveryRetries - 1
       THEN /\ timers' = Fired(t) (+) SetToBag({[kind |-> "deliveryResponse",
                 due |-> now + DeliveryRetryDelay, sid |-> t.sid, n |-> t.n + 1]})
            /\ UNCHANGED <<responseInProgress, createObs>>
       ELSE /\ timers' = Fired(t)
            /\ responseInProgress' = FALSE
            /\ UNCHANGED createObs
    /\ CallbackFrame

\* the 500 ms check: no response started -> retry; started -> reset in 500 ms
DeliveryCheckFires ==
  \E t \in Due("deliveryCheck") :
    /\ IF ~responseInProgress
       THEN IF t.n < maxDeliveryRetries - 1
            THEN timers' = Fired(t) (+) SetToBag({[kind |-> "deliveryResponse",
                   due |-> now + DeliveryRetryDelay, sid |-> t.sid, n |-> t.n + 1]})
            ELSE timers' = Fired(t)
       ELSE timers' = Fired(t) (+) SetToBag({[kind |-> "inProgressReset",
              due |-> now + DeliveryCheckDelay, sid |-> t.sid, n |-> 0]})
    /\ UNCHANGED <<responseInProgress, createObs>>
    /\ CallbackFrame

\* setTimeout(() => { responseInProgress = false })
InProgressResetFires ==
  \E t \in Due("inProgressReset") :
    /\ timers' = Fired(t)
    /\ responseInProgress' = FALSE
    /\ UNCHANGED createObs
    /\ CallbackFrame

\* ensureAddressResponse / ensureNameResponse callback: response.create
\* whatever responseInProgress says, reset armed in 200 ms; otherwise retry
\* in 100 ms, up to 5 attempts
EnsureResponseFires(kind, retryLimit) ==
  \E t \in Due(kind) :
    /\ IF ~userIsSpeaking /\ safeSendToOpenAI /\ streamSid = t.sid
       THEN /\ NoteCreate(kind)
            /\ timers' = Fired(t) (+) SetToBag({[kind |-> "inProgressReset",
                 due |-> now + AddressResetDelay, sid |-> t.sid, n |-> 0]})
            /\ UNCHANGED responseInProgress
       ELSE IF t.n < retryLimit - 1
       THEN /\ timers' = Fired(t) (+) SetToBag({[kind |-> kind,
                 due |-> now + AddressRetryDelay, sid |-> t.sid, n |-> t.n + 1]})
            /\ UNCHANGED <<responseInProgress, createObs>>
       ELSE /\ timers' = Fired(t)
            /\ responseInProgress' = FALSE
            /\ UNCHANGED createObs
    /\ CallbackFrame

AddressResponseFires == EnsureResponseFires("addressResponse", maxAddressRetries)
NameResponseFires == EnsureResponseFires("nameResponse", maxNameRetries)

\* ------------------------------------------------------------ finalization
\* the answers of the two awaited sinks: logOrderToGoogleSheets returns true
\* or false or throws, sendOrderToPOS returns or throws
SinkAnswers == [sheets : {"ok", "false", "throws"}, pos : {"ok", "throws"}]

\* the sinks start to answer differently
SinksAnswer(a) ==
  /\ a # sinks
  /\ sinks' = a
  /\ UNCHANGED <<twilioVars, orderVars, lastResponseTimestamps, clientVars,
                 responseInProgress, userIsSpeaking, greetVars, loopVars, now,
                 timers, epVars, createdObs, audioToCaller, createObs, logObs,
                 toolObs, loopObs, mediaVars, callObs, failObs, sweepsDone,
                 peerVars, orphanClient, confirmCalled, epSystemEcho, epSpeech, greetingSends,
                 orphanSessionPending, sheetsCall,
                 epSessionPending>>

\* whether the promise of logOrder rejects: each sink is awaited inside a
\* try/catch of its own and a false return is only reported, so it never does
LogOrderRejects(a) == FALSE

\* logged after `order.logged = true; logOrder(order).catch(() => order.logged = false)`
LoggedAfterLogOrder(a) == ~LogOrderRejects(a)

\* logOrder(order): the argument as the sinks see it.  Every sink call sits
\* in a try/catch that resolves, so the promise never rejects and no caller
\* gets to reset order.logged.
LogOrder(s, o, via) ==
  /\ logOrderCalls' = Append(logOrderCalls,
       [sid |-> s, via |-> via, customerName |-> o.customerName,
        deliveryMethod |-> o.deliveryMethod, address |-> o.address,
        items |-> NamedItems(o.items), sinks |-> sinks])
  /\ loggedFlips' = [loggedFlips EXCEPT ![s] = @ + 1]

\* the gate shared by the confirm callback and the 'stop' handler
ReadyToLog(o) ==
  /\ Len(o.items) > 0
  /\ ~o.logged
  /\ o.confirmed
  /\ HasName(o)
  /\ HasDeliveryMethod(o)
  /\ HasAddress(o)
  /\ Len(PricedItems(o.items)) > 0

\* a faulty close gate: the logged flag is not consulted
CloseLogsIgnoringFlag(o) == Len(NamedItems(o.items)) > 0

\* the gate of the socket 'close' handler: named items and not yet logged
CloseLogs(o) == Len(NamedItems(o.items)) > 0 /\ ~o.logged

\* response.content_part.added, tool_call confirm_order: confirmed is set
\* and the 2 s logging callback armed
PartConfirmOrder ==
  /\ InSession
  /\ CanSchedule
  /\ IF HasCurrentOrder
     THEN /\ orders' = [orders EXCEPT ![streamSid].confirmed = TRUE]
          /\ Schedule(Timer("confirm", ConfirmDelay, 0))
     ELSE UNCHANGED <<orders, timers>>
  /\ refusedApplied' = ToolNote("confirm_order", "content_part.added", TRUE, 0,
                          HasCurrentOrder /\ ~orders[streamSid].confirmed)
  /\ confirmCalled' = IF HasCurrentOrder THEN confirmCalled \cup {streamSid}
                       ELSE confirmCalled
  /\ UNCHANGED <<twilioVars, activeOrders, lastResponseTimestamps, clientVars,
                 responseInProgress, userIsSpeaking, greetVars, loopVars, now,
                 epVars, createdObs, audioToCaller, createObs, logObs, accepted,
                 epCalls,
                 addressCalled, loopObs, mediaVars, callObs, failObs,
                 sweepsDone, peerVars, orphanClient, sinks, epSystemEcho, epSpeech, greetingSends,
                 orphanSessionPending, sheetsCall,
                 epSessionPending>>

\* response.output_item.done, function_call confirm_order: the handler has
\* branches for add_item_to_order, set_delivery_method and set_customer_name
\* only, and arms its callback for those and set_address; the call changes
\* nothing
ItemDoneConfirmOrder ==
  /\ InSession
  /\ confirmCalled' = IF HasCurrentOrder THEN confirmCalled \cup {streamSid}
                       ELSE confirmCalled
  /\ UNCHANGED <<twilioVars, orderVars, lastResponseTimestamps, clientVars,
                 responseInProgress, userIsSpeaking, greetVars, loopVars, now,
                 timers, epVars, createdObs, audioToCaller, createObs, logObs,
                 toolObs, loopObs, mediaVars, callObs, failObs, sweepsDone,
                 peerVars, orphanClient, sinks, epSystemEcho, epSpeech, greetingSends,
                 orphanSessionPending, sheetsCall,
                 epSessionPending>>

\* the 2 s callback: the order now under streamSid is logged if complete
ConfirmTimerFires ==
  \E t \in Due("confirm") :
    /\ timers' = Fired(t)
    /\ IF HasCurrentOrder /\ ReadyToLog(orders[streamSid])
       THEN /\ orders' = [orders EXCEPT
                            ![streamSid].logged = LoggedAfterLogOrder(sinks),
                            ![streamSid].items = PricedItems(@)]
            /\ LogOrder(streamSid,
                        [orders[streamSid] EXCEPT !.items = PricedItems(@)],
                        "confirmTimer")
       ELSE UNCHANGED <<orders, logObs>>
    /\ UNCHANGED <<twilioVars, activeOrders, lastResponseTimestamps,
                   clientVars, responseInProgress, userIsSpeaking, greetVars,
                   loopVars, now, epVars, createdObs, audioToCaller,
                   createObs, toolObs, loopObs, sessionVars>>

\* Twilio 'stop': a complete confirmed order is logged, the client dropped,
\* the map entries of the stream deleted
TwilioStop ==
  /\ wsOpen
  /\ streamSid # 0
  /\ IF order # 0 /\ ReadyToLog(orders[order])
     THEN /\ orders' = [orders EXCEPT ![order].logged = LoggedAfterLogOrder(sinks)]
          /\ LogOrder(order, orders[order], "stop")
     ELSE UNCHANGED <<orders, logObs>>
  /\ openaiClient' = "null"
  /\ clientSid' = 0
  /\ menu' = "default"
  /\ activeOrders' = activeOrders \ {streamSid}
  /\ lastResponseTimestamps' = (streamSid :> 0) @@ lastResponseTimestamps
  /\ epResponse' = "none"
  /\ epGreetingEcho' = FALSE
  /\ respWhileSpeaking' = FALSE
  /\ respCancelSent' = FALSE
  /\ epSessionPending' = FALSE
  /\ UNCHANGED <<twilioVars, connectPending, openaiReady,
                 initialGreetingTriggered, responseInProgress, userIsSpeaking,
                 greetVars, loopVars, now, timers, createdObs, audioToCaller,
                 createObs, toolObs, loopObs, restVars>>

\* Twilio socket 'close': the client dropped; the order under streamSid is
\* confirmed and logged if it has named items and is not logged; the map
\* entry deleted; the per-connection state reset
TwilioClose ==
  /\ wsOpen
  /\ wsOpen' = FALSE
  /\ openaiClient' = "null"
  /\ clientSid' = 0
  /\ menu' = "default"
  /\ IF streamSid # 0 /\ HasCurrentOrder /\ CloseLogs(orders[streamSid])
     THEN /\ orders' = [orders EXCEPT
                          ![streamSid].confirmed = TRUE,
                          ![streamSid].logged = LoggedAfterLogOrder(sinks),
                          ![streamSid].items = NamedItems(@)]
          /\ LogOrder(streamSid, orders[streamSid], "close")
     ELSE UNCHANGED <<orders, logObs>>
  /\ activeOrders' = activeOrders \ {streamSid}
  /\ streamSid' = 0
  /\ order' = 0
  /\ recentResponses' = 0
  /\ consecutiveSimilarResponses' = 0
  /\ initialGreetingTriggered' = FALSE
  /\ openaiReady' = FALSE
  /\ responseInProgress' = FALSE
  /\ epResponse' = "none"
  /\ epGreetingEcho' = FALSE
  /\ respWhileSpeaking' = FALSE
  /\ respCancelSent' = FALSE
  /\ epSessionPending' = FALSE
  /\ preConnectionAudioQueue' = <<>>
  /\ UNCHANGED <<callCount, lastResponseTimestamps, connectPending,
                 userIsSpeaking, greetVars, lastAIResponse,
                 lastAIResponseTimestamp, now, timers, createdObs,
                 audioToCaller, createObs, toolObs, loopObs, chunkCount,
                 audioSent, callObs, failObs, sweepsDone, sideVars>>

\* order.timestamp; 0 when the record has no such field
OrderTimestamp(o) == IF "timestamp" \in DOMAIN o THEN o.timestamp ELSE 0

\* the sweep's test: the record carries a timestamp older than 10 minutes
IsStale(o, t) == OrderTimestamp(o) # 0 /\ t - OrderTimestamp(o) > StaleOrderMs

\* when the setInterval callback runs next
NextSweepDue == Epoch + (sweepsDone + 1) * SweepInterval

\* the 5-minute setInterval callback: stale entries leave activeOrders
SweepFires ==
  /\ now >= NextSweepDue
  /\ sweepsDone' = sweepsDone + 1
  /\ activeOrders' = {s \in activeOrders : ~IsStale(orders[s], now)}
  /\ UNCHANGED <<twilioVars, orders, lastResponseTimestamps, clientVars,
                 responseInProgress, userIsSpeaking, greetVars, loopVars, now,
                 timers, epVars, createdObs, audioToCaller, createObs, logObs,
                 toolObs, loopObs, mediaVars, callObs, failObs,
                 epSessionPending, sideVars>>

\* ------------------------------------------------------ a second connection
\* the streamSid Twilio gives the second connection's stream
PeerSid == 11

\* a faulty handler: it looks the order up under the other connection's key
PeerKeyShared == streamSid

\* the key a handler of the second connection uses for the module-level
\* maps: its own closure variable streamSid
PeerKey == peerStreamSid

\* everything the first connection owns
PeerFrame ==
  UNCHANGED <<twilioVars, clientVars, responseInProgress, userIsSpeaking,
              greetVars, loopVars, now, timers, epVars, createdObs,
              audioToCaller, createObs, toolObs, loopObs, mediaVars, callObs,
              failObs, sweepsDone, epSessionPending, orphanClient, sinks,
              epSystemEcho, epSpeech, greetingSends,
                 orphanSessionPending, sheetsCall,
              confirmCalled>>

\* 'start' on the second connection: its order is registered
PeerStart ==
  /\ peerWsOpen
  /\ peerStreamSid = 0
  /\ peerStreamSid' = PeerSid
  /\ peerUserIsSpeaking' = FALSE
  /\ peerStep' = ~peerStep
  /\ orders' = (PeerSid :> FreshOrder) @@ orders
  /\ activeOrders' = activeOrders \cup {PeerSid}
  /\ loggedFlips' = (PeerSid :> 0) @@ loggedFlips
  /\ UNCHANGED <<peerWsOpen, lastResponseTimestamps, logOrderCalls>>
  /\ PeerFrame

\* add_item_to_order handled by the second connection (default menu, no
\* size, quantity 1)
PeerAddItem(name) ==
  /\ peerWsOpen
  /\ peerStreamSid # 0
  /\ PeerKey \in activeOrders =>
       /\ Len(orders[PeerKey].items) < MaxLines
       /\ \A i \in 1..Len(orders[PeerKey].items) :
            orders[PeerKey].items[i].quantity < MaxQty
  /\ LET key == FindMenuItem("default", name)
         price == IF key = Null THEN 0
                  ELSE ResolvePriceItemDone(DefaultMenu[key], Null)
     IN IF PeerKey \in activeOrders /\ key # Null /\ price # 0
        THEN orders' = [orders EXCEPT ![PeerKey].items =
                          MergeItem(@, key, Null, 1, price)]
        ELSE UNCHANGED orders
  /\ peerStep' = ~peerStep
  /\ UNCHANGED <<peerWsOpen, peerStreamSid, peerUserIsSpeaking, activeOrders,
                 lastResponseTimestamps, logObs>>
  /\ PeerFrame

\* speech_started handled by the second connection
PeerSpeechStarted ==
  /\ peerWsOpen
  /\ peerStreamSid # 0
  /\ peerUserIsSpeaking' = TRUE
  /\ peerStep' = ~peerStep
  /\ UNCHANGED <<peerWsOpen, peerStreamSid, orderVars, lastResponseTimestamps,
                 logObs>>
  /\ PeerFrame

\* the post-tool callback of the second connection: shouldDebounceResponse
\* under its key
PeerPostTool ==
  /\ peerWsOpen
  /\ peerStreamSid # 0
  /\ lastResponseTimestamps' = DebounceStamp(PeerKey)
  /\ peerStep' = ~peerStep
  /\ UNCHANGED <<peerWsOpen, peerStreamSid, peerUserIsSpeaking, orderVars,
                 logObs>>
  /\ PeerFrame

\* 'stop' on the second connection
PeerStop ==
  /\ peerWsOpen
  /\ peerStreamSid # 0
  /\ IF ReadyToLog(orders[PeerSid])
     THEN /\ orders' = [orders EXCEPT ![PeerSid].logged = TRUE]
          /\ LogOrder(PeerSid, orders[PeerSid], "stop")
     ELSE UNCHANGED <<orders, logObs>>
  /\ activeOrders' = activeOrders \ {PeerKey}
  /\ lastResponseTimestamps' = (PeerKey :> 0) @@ lastResponseTimestamps
  /\ peerStep' = ~peerStep
  /\ UNCHANGED <<peerWsOpen, peerStreamSid, peerUserIsSpeaking>>
  /\ PeerFrame

\* the second connection's socket closes
PeerClose ==
  /\ peerWsOpen
  /\ peerWsOpen' = FALSE
  /\ IF peerStreamSid # 0 /\ PeerKey \in activeOrders /\ CloseLogs(orders[PeerKey])
     THEN /\ orders' = [orders EXCEPT
                          ![PeerKey].confirmed = TRUE,
                          ![PeerKey].logged = TRUE,
                          ![PeerKey].items = NamedItems(@)]
          /\ LogOrder(PeerKey, orders[PeerKey], "close")
     ELSE UNCHANGED <<orders, logObs>>
  /\ activeOrders' = IF peerStreamSid # 0 THEN activeOrders \ {PeerKey}
                     ELSE activeOrders
  /\ peerStreamSid' = 0
  /\ peerStep' = ~peerStep
  /\ UNCHANGED <<peerUserIsSpeaking, lastResponseTimestamps>>
  /\ PeerFrame

\* ------------------------------------------------------ completed utterance
\* transcript.toLowerCase() word by word
LowerWords(u) == [i \in DOMAIN u |-> ToLowerCase(u[i])]

\* split(/\s+/).filter(w => w.length > 2)
LongWords(u) == SelectSeq(LowerWords(u), LAMBDA w : Len(w) > 2)

Range(f) == {f[i] : i \in DOMAIN f}
Max(a, b) == IF a >= b THEN a ELSE b

\* commonWords.length: words of the new utterance found in the old one
CommonWords(u, last) ==
  Len(SelectSeq(LongWords(u), LAMBDA w : w \in Range(LongWords(last))))

\* similarity > 0.75, the similarity being 0 when the new one has no words
VerySimilar(u, last) ==
  /\ Len(LongWords(u)) > 0
  /\ 100 * CommonWords(u, last)
       > SimilarityPct * Max(Len(LongWords(u)), Len(LongWords(last)))

\* a faulty detector: only exact repeats count
IsRepeatExactOnly(u, last) == LowerWords(u) = LowerWords(last)

\* exactMatch || verySimilar
IsRepeat(u, last) == LowerWords(u) = LowerWords(last) \/ VerySimilar(u, last)

\* the phrase occurs in the utterance as consecutive words
Contains(u, phrase) ==
  \E i \in 1..Len(u) :
    /\ i + Len(phrase) - 1 <= Len(u)
    /\ \A j \in 1..Len(phrase) : LowerWords(u)[i + j - 1] = phrase[j]

\* the text of the error-recovery system message, as words
ErrorRecoveryText ==
  <<"error", "recovery", "an", "error", "occurred", "continue", "taking",
    "the", "order", "normally", "ask", "what", "would", "you", "like", "to",
    "order", "if", "no", "items", "or", "what", "else", "can", "i", "get",
    "you", "if", "items", "exist">>

\* the text of the loop-break system message about the utterance u
LoopBreakText(u) ==
  <<"stop", "repeating", "you", "just", "said">> \o u \o
  <<"the", "customer", "heard", "you", "wait", "for", "their", "response">>

\* isGreetingMessage of 'conversation.item.created': the text, lowered,
\* includes one of the two greeting phrases
IsGreetingMessage(text) ==
  \/ Contains(text, <<"what", "would", "you", "like", "to", "order">>)
  \/ Contains(text, <<"thanks", "for", "calling">>)

\* 'conversation.item.created' for a system message the handlers injected:
\* a text that passes for the greeting sets the anchor and arms the 300 ms
\* fallback, any other changes nothing
SystemItemCreated(text) ==
  /\ ClientLive
  /\ text \in epSystemEcho
  /\ CanSchedule
  /\ epSystemEcho' = epSystemEcho \ {text}
  /\ IF IsGreetingMessage(text)
     THEN /\ greetingCompletedTimestamp' = now
          /\ Schedule(Timer("greetingFallback", GreetingFallbackDelay, 0))
     ELSE UNCHANGED <<greetingCompletedTimestamp, timers>>
  /\ UNCHANGED <<twilioVars, orderVars, lastResponseTimestamps, clientVars,
                 responseInProgress, userIsSpeaking, postGreetingSilencePeriod,
                 loopVars, now, epVars, createdObs, audioToCaller, createObs,
                 logObs, toolObs, loopObs, mediaVars, callObs, failObs,
                 sweepsDone, peerVars, orphanClient, confirmCalled, sinks, epSpeech,
                 greetingSends, orphanSessionPending, sheetsCall,
                 epSessionPending>>

DonePhrases ==
  {<<"done">>, <<"that's", "it">>, <<"that's", "all">>, <<"i'm", "all", "set">>,
   <<"nothing", "else">>, <<"that'll", "be", "it">>, <<"that's", "everything">>}

ConfirmationPatterns ==
  {<<"yes">>, <<"yeah">>, <<"yep">>, <<"sounds", "good">>,
   <<"that's", "correct">>, <<"correct">>, <<"perfect">>, <<"okay">>, <<"ok">>,
   <<"alright">>, <<"your", "total", "is">>, <<"that'll", "be">>,
   <<"ready", "in", "about">>}

IsDone(u) == \E p \in DonePhrases : Contains(u, p)
HasConfirmation(u) == \E p \in ConfirmationPatterns : Contains(u, p)

\* parseOrderFromTranscript: confirmed when a confirmation is heard and the
\* order has items, method, payment, name and phone
parseOrderFromTranscript(u, o) ==
  IF /\ HasConfirmation(u)
     /\ Len(o.items) > 0
     /\ Truthy(o.deliveryMethod)
     /\ Truthy(o.paymentMethod)
     /\ Truthy(o.customerName)
     /\ Truthy(o.customerPhone)
  THEN [o EXCEPT !.confirmed = TRUE]
  ELSE o

\* the done-phrase check that ends the handler
MarkDone(u, o) ==
  IF Len(o.items) > 0 /\ IsDone(u) /\ ~o.logged
  THEN [o EXCEPT !.confirmed = TRUE]
  ELSE o

\* 'response.audio_transcript.done'; <<>> is an absent transcript; echoed
\* says the endpoint's conversation.item.created for an injected loop-break
\* message is followed
AudioTranscriptDoneEchoed(u, echoed) ==
  /\ InSession
  /\ LET within == /\ lastAIResponse # <<>>
                   /\ now - lastAIResponseTimestamp < LoopWindowMs
         repeat == u # <<>> /\ within /\ IsRepeat(u, lastAIResponse)
         breaks == repeat /\ safeSendToOpenAI /\ streamSid = clientSid
     IN /\ lastUtterance' = [text |-> u, prev |-> lastAIResponse,
                             age |-> now - lastAIResponseTimestamp,
                             flagged |-> repeat]
        /\ loopBreakCount' = IF breaks THEN 1 ELSE 0
        /\ epSystemEcho' = IF breaks /\ echoed
                           THEN epSystemEcho \cup {LoopBreakText(u)}
                           ELSE epSystemEcho
        /\ IF breaks
           THEN /\ consecutiveSimilarResponses' = 0
                /\ UNCHANGED <<lastAIResponse, lastAIResponseTimestamp,
                               recentResponses, orders>>
           ELSE /\ consecutiveSimilarResponses' =
                     IF repeat THEN consecutiveSimilarResponses + 1
                     ELSE IF u # <<>> THEN 0
                     ELSE consecutiveSimilarResponses
                /\ lastAIResponse' = IF u # <<>> THEN u ELSE lastAIResponse
                /\ lastAIResponseTimestamp' =
                     IF u # <<>> THEN now ELSE lastAIResponseTimestamp
                /\ recentResponses' =
                     IF u = <<>> THEN recentResponses
                     ELSE IF recentResponses < MaxRecentResponses
                     THEN recentResponses + 1
                     ELSE MaxRecentResponses
                /\ IF HasCurrentOrder
                   THEN orders' = [orders EXCEPT ![streamSid] =
                          MarkDone(u, IF u # <<>>
                                      THEN parseOrderFromTranscript(u, @)
                                      ELSE @)]
                   ELSE UNCHANGED orders
  /\ UNCHANGED <<twilioVars, activeOrders, lastResponseTimestamps, clientVars,
                 responseInProgress, userIsSpeaking, greetVars, now, timers,
                 epVars, createdObs, audioToCaller, createObs, logObs,
                 toolObs, mediaVars, callObs, failObs,
                 sweepsDone, peerVars, orphanClient, confirmCalled, sinks, epSpeech,
                 greetingSends, orphanSessionPending, sheetsCall,
                 epSessionPending>>

\* the same with the echo of the loop-break message left aside
AudioTranscriptDone(u) == AudioTranscriptDoneEchoed(u, FALSE)

\* ------------------------------------------------------------- turn taking
\* 'input_audio_buffer.speech_started'
SpeechStarted ==
  /\ InSession
  /\ ~userIsSpeaking
  /\ userIsSpeaking' = TRUE
  /\ epSpeech' = "idle"
  /\ UNCHANGED <<twilioVars, orderVars, lastResponseTimestamps, clientVars,
                 responseInProgress, greetVars, loopVars, now, timers, epVars,
                 createdObs, audioToCaller, createObs, logObs, toolObs,
                 loopObs, mediaVars, callObs, failObs, sweepsDone, peerVars,
                 orphanClient, confirmCalled, sinks, epSystemEcho,
                 greetingSends, orphanSessionPending, epSessionPending,
                 sheetsCall>>

\* a faulty 'speech_stopped': the flag is cleared at once
SpeechStoppedClears ==
  /\ InSession
  /\ userIsSpeaking
  /\ epSpeech = "idle"
  /\ epSpeech' = "stopped"
  /\ userIsSpeaking' = FALSE
  /\ UNCHANGED <<twilioVars, orderVars, lastResponseTimestamps, clientVars,
                 responseInProgress, greetVars, loopVars, now, timers, epVars,
                 createdObs, audioToCaller, createObs, logObs, toolObs,
                 loopObs, mediaVars, callObs, failObs, sweepsDone, peerVars,
                 orphanClient, confirmCalled, sinks, epSystemEcho,
                 greetingSends, orphanSessionPending, epSessionPending,
                 sheetsCall>>

\* 'input_audio_buffer.speech_stopped', which the endpoint sends after a
\* 'speech_started': logged, no variable of the connection is written
SpeechStopped ==
  /\ InSession
  /\ userIsSpeaking
  /\ epSpeech = "idle"
  /\ epSpeech' = "stopped"
  /\ UNCHANGED <<twilioVars, orderVars, lastResponseTimestamps, clientVars,
                 responseInProgress, userIsSpeaking, greetVars, loopVars, now,
                 timers, epVars, createdObs, audioToCaller, createObs, logObs,
                 toolObs, loopObs, mediaVars, callObs, failObs, sweepsDone,
                 peerVars, orphanClient, confirmCalled, sinks, epSystemEcho,
                 greetingSends, orphanSessionPending, epSessionPending,
                 sheetsCall>>

\* 'input_audio_buffer.committed': the caller is done; no response is forced
AudioCommitted ==
  /\ InSession
  /\ userIsSpeaking
  /\ userIsSpeaking' = FALSE
  /\ epSpeech' = "idle"
  /\ UNCHANGED <<twilioVars, orderVars, lastResponseTimestamps, clientVars,
                 responseInProgress, greetVars, loopVars, now, timers, epVars,
                 createdObs, audioToCaller, createObs, logObs, toolObs,
                 loopObs, mediaVars, callObs, failObs, sweepsDone, peerVars,
                 orphanClient, confirmCalled, sinks, epSystemEcho,
                 greetingSends, orphanSessionPending, epSessionPending,
                 sheetsCall>>

\* /[A-Z][a-z]+/i on one word of the transcripts the environment sends
IsNameWord(w) ==
  w \in {"Sal", "my", "name", "is", "large", "pizza", "soda", "please"}

\* the phrases of the first name pattern, as words
NameLeadIns ==
  {<<"my", "name", "is">>, <<"it's">>, <<"its">>, <<"this", "is">>, <<"i'm">>,
   <<"im">>, <<"call", "me">>, <<"name's">>, <<"names">>}

\* the lead-ins that match at word i of the transcript, one of them
\* followed by a name word
LeadInsAt(u, i) ==
  {p \in NameLeadIns :
     /\ i + Len(p) <= Len(u)
     /\ \A j \in 1..Len(p) : LowerWords(u)[i + j - 1] = p[j]
     /\ IsNameWord(u[i + Len(p)])}

\* one name word, and the next one when it is a name word too
NameAt(u, k) ==
  IF k + 1 <= Len(u) /\ IsNameWord(u[k + 1]) THEN u[k] \o " " \o u[k + 1]
  ELSE u[k]

\* the two namePatterns in turn: a lead-in followed by a name (leftmost
\* match), else a transcript that is one or two name words; Null is no match
ExtractName(u) ==
  LET starts == {i \in 1..Len(u) : LeadInsAt(u, i) # {}} IN
  IF starts # {}
  THEN LET i == CHOOSE x \in starts : \A y \in starts : x <= y
           p == CHOOSE q \in LeadInsAt(u, i) : TRUE
       IN NameAt(u, i + Len(p))
  ELSE IF Len(u) \in {1, 2} /\ \A i \in 1..Len(u) : IsNameWord(u[i])
  THEN NameAt(u, 1)
  ELSE Null

\* /(\d{3}[-.\s]?\d{3}[-.\s]?\d{4})/ on one word, separators removed
PhoneOf(w) == IF w \in {"5551234567", "555-123-4567"} THEN "5551234567" ELSE Null

\* the phonePatterns: the first word that holds ten digits; Null is no match
ExtractPhone(u) ==
  LET hits == {i \in 1..Len(u) : PhoneOf(u[i]) # Null} IN
  IF hits = {} THEN Null
  ELSE PhoneOf(u[CHOOSE x \in hits : \A y \in hits : x <= y])

\* the order after the extraction: a customerName that is not yet set is
\* taken from the caller's words, and so is a customerPhone
WithExtracted(u, o) ==
  LET named == IF ~Truthy(o.customerName) /\ ExtractName(u) # Null
               THEN [o EXCEPT !.customerName = ExtractName(u)] ELSE o
  IN IF ~Truthy(named.customerPhone) /\ ExtractPhone(u) # Null
     THEN [named EXCEPT !.customerPhone = ExtractPhone(u)] ELSE named

\* 'conversation.item.input_audio_transcription.completed'; <<>> is an
\* absent transcript
TranscriptionCompleted(u) ==
  /\ InSession
  /\ IF u # <<>> /\ HasCurrentOrder
     THEN orders' = [orders EXCEPT ![streamSid] = WithExtracted(u, @)]
     ELSE UNCHANGED orders
  /\ UNCHANGED <<twilioVars, activeOrders, lastResponseTimestamps, clientVars,
                 responseInProgress, userIsSpeaking, greetVars, loopVars, now,
                 timers, epVars, createdObs, audioToCaller, createObs, logObs,
                 toolObs, loopObs, sessionVars>>

\* timeSinceGreeting; -1 stands for Infinity (no anchor)
TimeSinceGreeting ==
  IF greetingCompletedTimestamp > 0 THEN now - greetingCompletedTimestamp
  ELSE -1

\* timeSinceGreeting > 0 && timeSinceGreeting < postGreetingSilencePeriod
InSilenceWindow(t) == t > 0 /\ t < postGreetingSilencePeriod

\* a faulty allowance: every response of the silence window passes
GreetingAllowedAlways(t) == TRUE

\* timeSinceGreeting < 2000: taken for the greeting response
GreetingAllowed(t) == t < GreetingAllowMs

\* a faulty reset: the flag is cleared only when the cancel went out
FlagAfterCancelOnlyIfSent(sent) == IF sent THEN FALSE ELSE responseInProgress

\* responseInProgress once the cancel has been tried: false in the branch
\* where safeSendToOpenAI returned true and in the branch where it did not
FlagAfterCancel(sent) == FALSE

\* 'response.created': cancelled in the silence window past its first 2 s,
\* cancelled while the caller speaks, otherwise marked in progress.  The
\* cancel travels to the endpoint while the endpoint goes on emitting.
ResponseCreated ==
  /\ InSession
  /\ epResponse = "none"
  /\ LET t == TimeSinceGreeting
         blocked == InSilenceWindow(t) /\ ~GreetingAllowed(t)
         cancels == blocked \/ userIsSpeaking
         attempts == cancels /\ streamSid = clientSid
         sends == attempts /\ safeSendToOpenAI
     IN /\ responseInProgress' =
             IF ~cancels THEN TRUE
             ELSE IF attempts THEN FlagAfterCancel(sends)
             ELSE responseInProgress
        /\ epResponse' = IF sends THEN "cancelPending" ELSE "active"
        /\ respWhileSpeaking' = userIsSpeaking
        /\ respCancelSent' = sends
        /\ createdAt' = t
        /\ createdOutcome' = [speaking |-> userIsSpeaking,
                              attempted |-> attempts, cancel |-> sends,
                              inProgress |-> responseInProgress',
                              heard |-> epSpeech]
  /\ UNCHANGED <<twilioVars, orderVars, lastResponseTimestamps, clientVars,
                 userIsSpeaking, greetVars, loopVars, now, timers,
                 epGreetingEcho, audioToCaller, createObs, logObs, toolObs,
                 loopObs, sessionVars>>

\* 'response.created' delivered by a replaced socket: the handler is the
\* same closure, so its cancel goes to the socket openaiClient names now
OrphanResponseCreated ==
  /\ wsOpen
  /\ orphanClient
  /\ LET t == TimeSinceGreeting
         blocked == InSilenceWindow(t) /\ ~GreetingAllowed(t)
         cancels == blocked \/ userIsSpeaking
         attempts == cancels /\ streamSid = clientSid
         sends == attempts /\ safeSendToOpenAI
     IN /\ responseInProgress' =
             IF ~cancels THEN TRUE
             ELSE IF attempts THEN FlagAfterCancel(sends)
             ELSE responseInProgress
        /\ createdAt' = t
        /\ createdOutcome' = [speaking |-> userIsSpeaking,
                              attempted |-> attempts, cancel |-> sends,
                              inProgress |-> responseInProgress',
                              heard |-> epSpeech]
  /\ UNCHANGED <<twilioVars, orderVars, lastResponseTimestamps, clientVars,
                 userIsSpeaking, greetVars, loopVars, now, timers, epVars,
                 audioToCaller, createObs, logObs, toolObs, loopObs,
                 sessionVars>>

\* the kind of the endpoint's current response
ResponseKind ==
  IF respWhileSpeaking THEN "createdWhileSpeaking" ELSE "createdWhileQuiet"

\* what both delta handlers leave alone
DeltaFrame ==
  UNCHANGED <<twilioVars, orderVars, lastResponseTimestamps, clientVars,
              responseInProgress, userIsSpeaking, greetVars, loopVars, now,
              timers, epVars, createdObs, createObs, logObs, toolObs, loopObs, sessionVars>>

\* 'response.output_item.delta' with an audio item: forwarded to Twilio when
\* the socket is open, whatever the turn-taking flags say
AudioDelta ==
  /\ InSession
  /\ epResponse # "none"
  /\ audioToCaller' = IF wsOpen THEN audioToCaller \cup {ResponseKind}
                      ELSE audioToCaller
  /\ DeltaFrame

\* 'response.audio.delta': forwarded to Twilio
AudioDeltaAlt ==
  /\ InSession
  /\ epResponse # "none"
  /\ audioToCaller' = audioToCaller \cup {ResponseKind}
  /\ DeltaFrame

\* Math.ceil(parseFloat(waitMatch[1]) * 1000) of the seconds the error
\* message names
ParseSecondsMs(s) ==
  CASE s = "2" -> 2000
    [] s = "3.961" -> 3961
    [] OTHER -> 0

\* what follows 'try again in' in the error message; Null when the message
\* has no such words
Guidances == {Null, "2", "3.961"}

\* waitTime of the rate-limit branch
WaitTime(guidance) ==
  IF guidance = Null THEN RateLimitWait
  ELSE ParseSecondsMs(guidance) + RateLimitBuffer

\* 'response.done': status is completed | cancelled | failed; toolOnly says
\* the output holds a function_call and no message; rateLimit says the
\* error details name a rate limit, guidance is the 'try again in Ns' of
\* their message
ResponseDoneGuided(status, toolOnly, rateLimit, guidance) ==
  /\ InSession
  /\ epResponse # "none"
  /\ status = "cancelled" => epResponse = "cancelPending"
  /\ rateLimit => status = "failed"
  /\ guidance # Null => rateLimit
  /\ CanSchedule
  /\ LET failed == status = "failed"
         isDeliveryConfirmation ==
           /\ HasCurrentOrder
           /\ orders[streamSid].deliveryMethod = "delivery"
           /\ ~Truthy(orders[streamSid].address)
         isNameConfirmation ==
           ~HasCurrentOrder \/ ~Truthy(orders[streamSid].customerName)
         critical == failed /\ (isDeliveryConfirmation \/ isNameConfirmation)
         recovers ==
           /\ failed /\ ~rateLimit
           /\ safeSendToOpenAI
           /\ streamSid = clientSid
           /\ ~userIsSpeaking
     IN /\ responseInProgress' =
             IF ~failed \/ ~critical THEN FALSE ELSE responseInProgress
        /\ IF toolOnly /\ ~failed
           THEN Schedule(Timer("toolOnly", ToolOnlyDelay, 0))
           ELSE IF failed /\ rateLimit
           THEN Schedule(Timer("rateLimitRetry", WaitTime(guidance),
                               IF critical THEN 1 ELSE 0))
           ELSE IF recovers
           THEN Schedule(Timer("errorRecovery", ErrorRecoveryDelay, 0))
           ELSE UNCHANGED timers
        /\ epSystemEcho' = IF recovers
                           THEN epSystemEcho \cup {ErrorRecoveryText}
                           ELSE epSystemEcho
  /\ epResponse' = "none"
  /\ respWhileSpeaking' = FALSE
  /\ respCancelSent' = FALSE
  /\ UNCHANGED <<twilioVars, orderVars, lastResponseTimestamps, clientVars,
                 userIsSpeaking, greetVars, loopVars, now, epGreetingEcho,
                 createdObs, audioToCaller, createObs, logObs, toolObs,
                 loopObs, mediaVars, callObs, failObs,
                 sweepsDone, peerVars, orphanClient, confirmCalled, sinks, epSpeech,
                 greetingSends, orphanSessionPending, sheetsCall,
                 epSessionPending>>

\* 'response.done' whose error message, if any, names no wait
ResponseDone(status, toolOnly, rateLimit) ==
  ResponseDoneGuided(status, toolOnly, rateLimit, Null)

\* the 100 ms callback after a tool-only response
ToolOnlyFires ==
  \E t \in Due("toolOnly") :
    /\ timers' = Fired(t)
    /\ IF /\ ~userIsSpeaking
          /\ ~responseInProgress
          /\ safeSendToOpenAI
          /\ streamSid = t.sid
       THEN responseInProgress' = TRUE /\ NoteCreate("toolOnly")
       ELSE UNCHANGED <<responseInProgress, createObs>>
    /\ CallbackFrame

\* the retry callback after a rate-limit failure: sent even while the caller
\* speaks when the failed response was a critical confirmation
RateLimitRetryFires ==
  \E t \in Due("rateLimitRetry") :
    /\ timers' = Fired(t)
    /\ IF safeSendToOpenAI /\ streamSid = t.sid
       THEN IF ~userIsSpeaking \/ t.n = 1
            THEN responseInProgress' = TRUE /\ NoteCreate("rateLimitRetry")
            ELSE responseInProgress' = FALSE /\ UNCHANGED createObs
       ELSE UNCHANGED <<responseInProgress, createObs>>
    /\ CallbackFrame

\* the 500 ms callback after any other failure
ErrorRecoveryFires ==
  \E t \in Due("errorRecovery") :
    /\ timers' = Fired(t)
    /\ IF ~responseInProgress /\ ~userIsSpeaking /\ streamSid = t.sid
       THEN IF safeSendToOpenAI
            THEN responseInProgress' = TRUE /\ NoteCreate("errorRecovery")
            ELSE responseInProgress' = FALSE /\ UNCHANGED createObs
       ELSE UNCHANGED <<responseInProgress, createObs>>
    /\ CallbackFrame

\* --------------------------------------- integrations/google-sheets.js
\* a faulty backoff: the same delay before every retry
BackoffDelayFlat(attempt) == 1000

\* Math.min(1000 * Math.pow(2, attempt - 1), 5000)
BackoffDelay(attempt) ==
  IF 1000 * 2 ^ (attempt - 1) < 5000 THEN 1000 * 2 ^ (attempt - 1) ELSE 5000

\* what one spreadsheets.values.append call can come back with: the row was
\* appended, or an error with this code or message
AppendOutcomes ==
  {"ok", "502", "503", "429", "ECONNRESET", "ETIMEDOUT", "400"}

\* isRetryable: code 502, 503 or 429, or a message that holds one of them,
\* ECONNRESET or ETIMEDOUT
IsRetryable(error) ==
  error \in {"502", "503", "429", "ECONNRESET", "ETIMEDOUT"}

\* what the sheets call leaves alone: the whole connection
SheetsFrame ==
  UNCHANGED <<twilioVars, orderVars, lastResponseTimestamps, clientVars,
              responseInProgress, userIsSpeaking, greetVars, loopVars, now,
              timers, epVars, createdObs, audioToCaller, createObs, logObs,
              toolObs, loopObs, mediaVars, callObs, failObs, sweepsDone,
              peerVars, orphanClient, confirmCalled, sinks, epSystemEcho,
              epSpeech, greetingSends, orphanSessionPending,
              epSessionPending>>

\* the loop body up to the append: an order without items, or a row that
\* does not pass the pattern and sanity checks, returns false before it
BeforeAppend(call) ==
  IF call.items = 0 \/ ~call.rowValid
  THEN [call EXCEPT !.pc = "done", !.result = "false"]
  ELSE [call EXCEPT !.pc = "append"]

\* logOrderToGoogleSheets(order, storeConfig) up to its first await
LogOrderToGoogleSheets(configured, items, rowValid) ==
  /\ sheetsCall.pc = "idle"
  /\ sheetsCall' =
       LET call == [pc |-> "idle", configured |-> configured, items |-> items,
                    rowValid |-> rowValid, attempt |-> 1, appends |-> <<>>,
                    delays |-> <<>>, result |-> "none"]
       IN IF ~configured
          THEN [call EXCEPT !.pc = "done", !.result = "false"]
          ELSE BeforeAppend(call)
  /\ SheetsFrame

\* the append settles: true on success; a retryable error with attempts left
\* waits, any other error returns false
AppendSettles(outcome) ==
  /\ sheetsCall.pc = "append"
  /\ sheetsCall' =
       LET call == [sheetsCall EXCEPT !.appends = Append(@, outcome)]
       IN IF outcome = "ok"
          THEN [call EXCEPT !.pc = "done", !.result = "true"]
          ELSE IF IsRetryable(outcome) /\ call.attempt < sheetsMaxRetries
          THEN [call EXCEPT !.pc = "backoff"]
          ELSE [call EXCEPT !.pc = "done", !.result = "false"]
  /\ SheetsFrame

\* await new Promise(resolve => setTimeout(resolve, delay)); continue
BackoffElapsed ==
  /\ sheetsCall.pc = "backoff"
  /\ sheetsCall' =
       BeforeAppend([sheetsCall EXCEPT
                       !.delays = Append(@, BackoffDelay(sheetsCall.attempt)),
                       !.attempt = @ + 1])
  /\ SheetsFrame

\* ---------------------------------------------------------- specifications
\* inputs of add_item_to_order
ItemNames == {"Pepperoni Pizza", "soda", "water", "John"}
ItemSizes == {Null, "large"}
ItemQuantities == {<<>>, <<2>>, <<3>>}

ConnectNext ==
  \/ TwilioStart
  \/ \E s \in connectPending, m \in MenuKinds : MenuFetched(s, m)
  \/ OpenaiOpen
  \/ SessionUpdated

\* calls that only add items, through either handler
ItemsNext ==
  \/ ConnectNext
  \/ \E n \in ItemNames, s \in ItemSizes, q \in ItemQuantities :
       ItemDoneAddItem(n, s, q)
  \/ \E n \in ItemNames, s \in ItemSizes, q \in ItemQuantities :
       PartAddItem(n, s, q)
  \/ PostToolFires
  \/ ItemResponseFires
  \/ Tick(StartSilencePeriod, StartSilencePeriod)

SpecItems == Init /\ [][ItemsNext]_vars

\* repeated adds of one menu item in its two sizes, through either handler,
\* inside the silence period (the post-tool callback is not armed there)
MergeNext ==
  \/ TwilioStart
  \/ \E s \in connectPending : MenuFetched(s, "default")
  \/ OpenaiOpen
  \/ SessionUpdated
  \/ \E s \in ItemSizes, q \in ItemQuantities :
       ItemDoneAddItem("Pepperoni Pizza", s, q)
  \/ \E s \in ItemSizes, q \in ItemQuantities :
       PartAddItem("Pepperoni Pizza", s, q)
  \/ ItemResponseFires
  \/ Tick(ItemResponseDelay, ItemResponseDelay)

SpecMerge == Init /\ [][MergeNext]_vars

\* inputs of set_delivery_method and set_address
Methods == {"pickup", "Delivery", "46031"}
Addresses == {"12 Main St", "   "}

\* calls that only settle how the order is handed over
DeliveryNext ==
  \/ ConnectNext
  \/ \E m \in Methods : ItemDoneSetDeliveryMethod(m)
  \/ \E m \in Methods : PartSetDeliveryMethod(m)
  \/ \E a \in Addresses : ItemDoneSetAddress(a)
  \/ \E a \in Addresses : PartSetAddress(a)
  \/ PostToolFires
  \/ DeliveryResponseFires
  \/ DeliveryCheckFires
  \/ InProgressResetFires
  \/ AddressResponseFires
  \/ Tick(StartSilencePeriod, StartSilencePeriod)

SpecDelivery == Init /\ [][DeliveryNext]_vars

\* completed utterances of the assistant
SayWhatElse == <<"what", "else", "for", "you">>
SayWhatElseCaps == <<"What", "else", "for", "you">>
SayWhatElseToday == <<"what", "else", "for", "you", "today">>
SayAnythingElse == <<"anything", "else", "for", "you">>
SayDone == <<"ok", "you", "are", "done">>
Utterances == {SayWhatElse, SayWhatElseCaps, SayWhatElseToday,
               SayAnythingElse, SayDone, <<>>}

\* calls that build an order and end, through every finalization trigger
FinalNext ==
  \/ TwilioStart
  \/ \E s \in connectPending : MenuFetched(s, "default")
  \/ OpenaiOpen
  \/ SessionUpdated
  \/ ItemDoneAddItem("soda", Null, <<>>)
  \/ ItemDoneSetCustomerName("Sal")
  \/ \E m \in {"pickup", "delivery"} : ItemDoneSetDeliveryMethod(m)
  \/ PartConfirmOrder
  \/ ItemDoneConfirmOrder
  \/ AudioTranscriptDone(SayDone)
  \/ ConfirmTimerFires
  \/ TwilioStop
  \/ TwilioClose
  \/ Tick(ConfirmDelay, ConfirmDelay)

SpecFinal == Init /\ [][FinalNext]_vars

\* the assistant speaks, possibly repeating itself
LoopNext ==
  \/ TwilioStart
  \/ \E s \in connectPending : MenuFetched(s, "default")
  \/ OpenaiOpen
  \/ SessionUpdated
  \/ \E u \in Utterances : AudioTranscriptDone(u)
  \/ Tick(StartSilencePeriod, StartSilencePeriod)

SpecLoop == Init /\ [][LoopNext]_vars

\* statuses of response.done with their output shape: <<status, toolOnly,
\* rateLimit>>
DoneKinds ==
  {<<"completed", FALSE, FALSE>>, <<"completed", TRUE, FALSE>>,
   <<"cancelled", FALSE, FALSE>>, <<"failed", FALSE, TRUE>>,
   <<"failed", FALSE, FALSE>>}

\* responses end, some with a tool call only, some failing; every sender of
\* a follow-up response.create runs
RecoveryNext ==
  \/ TwilioStart
  \/ \E s \in connectPending : MenuFetched(s, "default")
  \/ OpenaiOpen
  \/ SessionUpdated
  \/ SpeechStarted
  \/ AudioCommitted
  \/ ResponseCreated
  \/ \E k \in DoneKinds : ResponseDone(k[1], k[2], k[3])
  \/ ToolOnlyFires
  \/ RateLimitRetryFires
  \/ ErrorRecoveryFires
  \/ Tick(StartSilencePeriod, StartSilencePeriod)
       /\ greetingCompletedTimestamp > 0

SpecRecovery == Init /\ [][RecoveryNext]_vars

\* the caller and the endpoint take turns after the greeting; the clock is
\* followed from the greeting anchor on (nothing before it reads the time)
TurnNext ==
  \/ TwilioStart
  \/ \E s \in connectPending : MenuFetched(s, "default")
  \/ OpenaiOpen
  \/ SessionUpdated
  \/ GreetingItemCreated
  \/ GreetingFallbackFires
  \/ SpeechStarted
  \/ AudioCommitted
  \/ ResponseCreated
  \/ AudioDelta
  \/ AudioDeltaAlt
  \/ \E status \in {"completed", "cancelled"} :
       ResponseDone(status, FALSE, FALSE)
  \/ Tick(GreetingAllowMs \div 2, InitialSilencePeriod)
       /\ greetingCompletedTimestamp > 0

SpecTurn == Init /\ [][TurnNext]_vars

AllMenuKeys == DOMAIN DefaultMenu \cup DOMAIN SheetMenu

\* a socket that carries one call after another: the first call leaves an
\* order, turn-taking flags, tracked utterances and held-back audio behind
FirstCall == callCount = 1

RestartNext ==
  \/ TwilioStart
  \/ TwilioRestart
  \/ \E c \in connectPending : MenuFetched(c, "default")
  \/ OpenaiOpen
  \/ SessionUpdated
  \/ TwilioMedia /\ chunkCount < MaxChunks
  \/ SpeechStarted /\ FirstCall
  \/ ResponseCreated /\ FirstCall
  \/ AudioTranscriptDone(SayDone) /\ FirstCall /\ lastAIResponse = <<>>
  \/ ItemDoneAddItem("soda", Null, <<>>) /\ FirstCall /\ orders[1].items = <<>>
  \/ ItemDoneSetCustomerName("Sal") /\ FirstCall
  \/ TwilioStop
  \/ TwilioClose

SpecRestart == Init /\ [][RestartNext]_vars

\* a call that stays up while the server's 5-minute sweep keeps running
SweepNext ==
  \/ TwilioStart
  \/ \E c \in connectPending : MenuFetched(c, "default")
  \/ OpenaiOpen
  \/ SessionUpdated
  \/ ItemDoneAddItem("soda", Null, <<>>) /\ orders[streamSid].items = <<>>
  \/ ItemDoneSetCustomerName("Sal")
  \/ SweepFires
  \/ Tick(SweepInterval, 2 * SweepInterval) /\ now < NextSweepDue
  \/ TwilioStop
  \/ TwilioClose

SpecSweep == Init /\ [][SweepNext]_vars

\* the endpoint fails while the caller stays on the line: 'error' events,
\* socket errors and closures, reconnects that are rejected
FailureNext ==
  \/ TwilioStart
  \/ \E c \in connectPending : MenuFetched(c, "default")
  \/ \E c \in connectPending : c.via = "errorEvent" /\ ConnectRejects(c)
  \/ OpenaiOpen
  \/ OpenaiSocketError
  \/ OpenaiClose
  \/ SessionUpdated
  \/ EndpointError
  \/ ErrorReconnectFires
  \/ TwilioClose
  \/ Tick(ErrorReconnectDelay, ErrorReconnectDelay)

SpecFailure == Init /\ [][FailureNext]_vars

\* the endpoint cannot be brought up: connects are rejected and retried, or
\* the socket opens and session.update cannot be sent
RetryNext ==
  \/ TwilioStart
  \/ \E c \in connectPending : MenuFetched(c, "default")
  \/ \E c \in connectPending : ConnectRejects(c)
  \/ OpenaiOpen
  \/ OpenaiOpenFails
  \/ SessionUpdated
  \/ RetryConnectionFires
  \/ OpenReconnectFires
  \/ Tick(RetryBaseDelay, 2 * OpenReconnectDelay)

SpecRetry == Init /\ [][RetryNext]_vars

\* two calls at once, each on its own connection
PairNext ==
  \/ TwilioStart
  \/ \E c \in connectPending : MenuFetched(c, "default")
  \/ OpenaiOpen
  \/ SessionUpdated
  \/ SpeechStarted
  \/ ItemDoneAddItem("soda", Null, <<>>) /\ orders[streamSid].items = <<>>
  \/ PostToolFires
  \/ Tick(StartSilencePeriod, StartSilencePeriod)
  \/ TwilioStop
  \/ TwilioClose
  \/ PeerStart
  \/ \E n \in {"soda", "water"} : PeerAddItem(n)
  \/ PeerSpeechStarted
  \/ PeerPostTool
  \/ PeerStop
  \/ PeerClose

SpecPair == Init /\ [][PairNext]_vars

\* what the caller is heard to say
CallerUtterances ==
  {<<>>, <<"my", "name", "is", "Sal">>, <<"large", "pizza">>,
   <<"a", "soda", "please">>, <<"555-123-4567">>}

\* an item ordered by tool call among the other events of a call: speech,
\* transcripts of both sides, responses and their audio
FieldsNext ==
  \/ TwilioStart
  \/ \E c \in connectPending : MenuFetched(c, "default")
  \/ OpenaiOpen
  \/ SessionUpdated
  \/ ItemDoneAddItem("soda", Null, <<>>)
  \/ \E u \in CallerUtterances : TranscriptionCompleted(u)
  \/ AudioTranscriptDone(SayDone)
  \/ SpeechStarted
  \/ AudioCommitted
  \/ ResponseCreated
  \/ AudioDelta
  \/ ResponseDone("completed", FALSE, FALSE)

SpecFields == Init /\ [][FieldsNext]_vars

\* the finalization paths while the sinks come and go
SinkNext ==
  \/ TwilioStart
  \/ \E s \in connectPending : MenuFetched(s, "default")
  \/ OpenaiOpen
  \/ SessionUpdated
  \/ ItemDoneAddItem("soda", Null, <<>>)
  \/ ItemDoneSetCustomerName("Sal")
  \/ ItemDoneSetDeliveryMethod("pickup")
  \/ PartConfirmOrder
  \/ ConfirmTimerFires
  \/ TwilioStop
  \/ TwilioClose
  \/ \E a \in SinkAnswers : SinksAnswer(a)
  \/ Tick(ConfirmDelay, ConfirmDelay)

SpecSink == Init /\ [][SinkNext]_vars

\* responses that fail at the rate limit, with and without guidance, while
\* the caller speaks and gives their name; the clock moves by the second
RateLimitNext ==
  \/ TwilioStart
  \/ \E s \in connectPending : MenuFetched(s, "default")
  \/ OpenaiOpen
  \/ SessionUpdated
  \/ ItemDoneSetCustomerName("Sal")
  \/ PostToolFires
  \/ SpeechStarted
  \/ AudioCommitted
  \/ ResponseCreated
  \/ \E g \in Guidances : ResponseDoneGuided("failed", FALSE, TRUE, g)
  \/ RateLimitRetryFires
  \/ Tick(RateLimitBuffer, ParseSecondsMs("2") + RateLimitBuffer)

SpecRateLimit == Init /\ [][RateLimitNext]_vars

\* responses that fail for a reason other than the rate limit, before and
\* after the caller has given a name; the clock moves by the recovery delay
GenericNext ==
  \/ TwilioStart
  \/ \E s \in connectPending : MenuFetched(s, "default")
  \/ OpenaiOpen
  \/ SessionUpdated
  \/ ItemDoneSetCustomerName("Sal")
  \/ SpeechStarted
  \/ AudioCommitted
  \/ ResponseCreated
  \/ ResponseDone("completed", FALSE, FALSE)
  \/ ResponseDone("failed", FALSE, FALSE)
  \/ ErrorRecoveryFires
  \/ Tick(ErrorRecoveryDelay, 2 * ErrorRecoveryDelay)

SpecGeneric == Init /\ [][GenericNext]_vars

\* add_item_to_order calls for one item, each surfacing through one of the
\* two events or through both, inside the silence period
SurfaceNext ==
  \/ TwilioStart
  \/ \E s \in connectPending : MenuFetched(s, "default")
  \/ OpenaiOpen
  \/ SessionUpdated
  \/ \E q \in {<<>>, <<2>>}, sf \in Surfacings :
       ItemDoneAddItemOf("soda", Null, q, sf)
  \/ \E q \in {<<>>, <<2>>}, sf \in Surfacings :
       PartAddItemOf("soda", Null, q, sf)
  \/ ItemResponseFires
  \/ Tick(ItemResponseDelay, ItemResponseDelay)

SpecSurface == Init /\ [][SurfaceNext]_vars

\* add_item_to_order calls whose arguments parse, parse without a name, or
\* do not parse, inside the silence period
RawNext ==
  \/ TwilioStart
  \/ \E s \in connectPending : MenuFetched(s, "default")
  \/ OpenaiOpen
  \/ SessionUpdated
  \/ \E raw \in RawArgs : ItemDoneAddItemRaw(raw)
  \/ \E raw \in RawArgs : PartAddItemRaw(raw)
  \/ ItemResponseFires
  \/ Tick(ItemResponseDelay, ItemResponseDelay)

SpecRaw == Init /\ [][RawNext]_vars

\* adds of the pizza with the size left out and with its first declared
\* size named, through response.output_item.done, inside the silence period
SizeNext ==
  \/ TwilioStart
  \/ \E s \in connectPending : MenuFetched(s, "default")
  \/ OpenaiOpen
  \/ SessionUpdated
  \/ \E s \in {Null, "small"}, q \in ItemQuantities :
       ItemDoneAddItem("Pepperoni Pizza", s, q)
  \/ \E q \in ItemQuantities : ItemDoneAddItem("soda", Null, q)
  \/ Tick(ItemResponseDelay, ItemResponseDelay)

SpecSize == Init /\ [][SizeNext]_vars

\* quantities a call can carry: absent, zero, negative, two
AnyQuantities == {<<>>, <<0>>, <<-1>>, <<2>>}

\* the environment keeps the quantities of the order from falling without end
NotBelow(q) ==
  streamSid \in DOMAIN orders =>
    \A i \in 1..Len(orders[streamSid].items) :
      orders[streamSid].items[i].quantity + QuantityOf(q) >= 0 - MaxQty

\* adds of one flat-priced item with any quantity, through either handler,
\* inside the silence period
QuantityNext ==
  \/ TwilioStart
  \/ \E s \in connectPending : MenuFetched(s, "default")
  \/ OpenaiOpen
  \/ SessionUpdated
  \/ \E q \in AnyQuantities : NotBelow(q) /\ ItemDoneAddItem("soda", Null, q)
  \/ \E q \in AnyQuantities : NotBelow(q) /\ PartAddItem("soda", Null, q)
  \/ ItemResponseFires
  \/ Tick(ItemResponseDelay, ItemResponseDelay)

SpecQuantity == Init /\ [][QuantityNext]_vars

\* the caller's turns as the endpoint reports them, responses created in
\* between, and a second 'start' on the socket
SpeechNext ==
  \/ TwilioStart
  \/ TwilioRestart
  \/ \E c \in connectPending : MenuFetched(c, "default")
  \/ OpenaiOpen
  \/ SessionUpdated
  \/ SpeechStarted
  \/ SpeechStopped
  \/ AudioCommitted
  \/ ResponseCreated
  \/ \E status \in {"completed", "cancelled"} :
       ResponseDone(status, FALSE, FALSE)
  \/ Tick(GreetingAllowMs, InitialSilencePeriod)

SpecSpeech == Init /\ [][SpeechNext]_vars

\* the greeting and its echo, then responses that fail, an assistant that
\* repeats itself, and the echoes of the system messages injected for both
AnchorNext ==
  \/ TwilioStart
  \/ \E s \in connectPending : MenuFetched(s, "default")
  \/ OpenaiOpen
  \/ SessionUpdated
  \/ GreetingItemCreated
  \/ GreetingFallbackFires
  \/ ResponseCreated
  \/ ResponseDone("completed", FALSE, FALSE)
  \/ ResponseDone("failed", FALSE, FALSE)
  \/ ErrorRecoveryFires
  \/ AudioTranscriptDoneEchoed(SayWhatElse, TRUE)
  \/ \E text \in epSystemEcho : SystemItemCreated(text)
  \/ Tick(ErrorRecoveryDelay, 2 * ErrorRecoveryDelay)

SpecAnchor == Init /\ [][AnchorNext]_vars

\* one call whose endpoint socket fails and is reconnected, with a replaced
\* socket that still delivers its session.updated, and the greeting retries
GreetNext ==
  \/ TwilioStart
  \/ \E c \in connectPending : MenuFetchedFollowed(c, "default", TRUE)
  \/ OpenaiOpen
  \/ SessionUpdated
  \/ OrphanSessionUpdated
  \/ GreetingRetryFires
  \/ EndpointError
  \/ OpenaiSocketError
  \/ ErrorReconnectFires
  \/ Tick(GreetingRetryDelay, ErrorReconnectDelay)
  \/ Tick(ErrorReconnectDelay, ErrorReconnectDelay)

SpecGreet == Init /\ [][GreetNext]_vars

\* responses that carry a set_delivery_method call, with the callbacks the
\* call arms
FlightNext ==
  \/ TwilioStart
  \/ \E s \in connectPending : MenuFetched(s, "default")
  \/ OpenaiOpen
  \/ SessionUpdated
  \/ ResponseCreated
  \/ ResponseDone("completed", FALSE, FALSE)
  \/ PartSetDeliveryMethod("pickup")
  \/ DeliveryResponseFires
  \/ DeliveryCheckFires
  \/ InProgressResetFires
  \/ Tick(DeliveryCheckDelay, DeliveryCheckDelay)

SpecFlight == Init /\ [][FlightNext]_vars

\* one call of logOrderToGoogleSheets with every outcome of its appends
SheetsNext ==
  \/ \E configured \in BOOLEAN, items \in {0, 2}, rowValid \in BOOLEAN :
       LogOrderToGoogleSheets(configured, items, rowValid)
  \/ \E outcome \in AppendOutcomes : AppendSettles(outcome)
  \/ BackoffElapsed

SpecSheets == Init /\ [][SheetsNext]_vars

\* every append settles and every backoff timer fires
SpecSheetsFair == SpecSheets /\ WF_vars(SheetsNext)

\* tool calls that change the order, each followed by the callback that
\* sends its confirmation response.create, around the silence period that
\* follows the greeting anchor
ConfirmNext ==
  \/ ConnectNext
  \/ SpeechStarted
  \/ AudioCommitted
  \/ ItemDoneAddItem("soda", Null, <<>>)
  \/ PartAddItem("soda", Null, <<>>)
  \/ PartSetCustomerName("Sal")
  \/ PostToolFires
  \/ ItemResponseFires
  \/ NameResponseFires
  \/ InProgressResetFires
  \/ Tick(ItemResponseDelay, ItemResponseDelay)
  \/ Tick(StartSilencePeriod, StartSilencePeriod)

SpecConfirm == Init /\ [][ConfirmNext]_vars

\* a reconnect replaces a socket that opened in the meantime; the replaced
\* socket goes on delivering response.created
OrphanNext ==
  \/ TwilioStart
  \/ \E c \in connectPending : MenuFetched(c, "default")
  \/ OpenaiOpen
  \/ SessionUpdated
  \/ EndpointError
  \/ OpenaiSocketError
  \/ ErrorReconnectFires
  \/ SpeechStarted
  \/ AudioCommitted
  \/ ResponseCreated
  \/ OrphanResponseCreated
  \/ \E status \in {"completed", "cancelled"} :
       ResponseDone(status, FALSE, FALSE)
  \/ Tick(ErrorReconnectDelay, ErrorReconnectDelay)

SpecOrphan == Init /\ [][OrphanNext]_vars

\* caller audio while the endpoint comes up, fails and is reconnected
AudioNext ==
  \/ TwilioStart
  \/ \E c \in connectPending : MenuFetched(c, "default")
  \/ OpenaiOpen
  \/ SessionUpdated
  \/ TwilioMedia /\ chunkCount < MaxChunks
  \/ EndpointError
  \/ OpenaiSocketError
  \/ OpenaiClose
  \/ ErrorReconnectFires
  \/ Tick(ErrorReconnectDelay, ErrorReconnectDelay)

SpecAudio == Init /\ [][AudioNext]_vars

\* caller audio piling up past the queue's capacity before the endpoint is
\* ready
QueueNext ==
  \/ TwilioStart
  \/ \E c \in connectPending : MenuFetched(c, "default")
  \/ OpenaiOpen
  \/ SessionUpdated
  \/ TwilioMedia /\ chunkCount < MaxQueuedChunks + MaxOverflow

SpecQueue == Init /\ [][QueueNext]_vars

\* C3: after any add_item_to_order calls, through either handler, every
\* order line has a name that is a menu key and a price above 0, and an add
\* whose name is unknown or whose resolved price is 0 leaves the items as
\* they were.
C3_ItemsValid ==
  /\ \A s \in DOMAIN orders : \A i \in 1..Len(orders[s].items) :
       /\ orders[s].items[i].name \in AllMenuKeys
       /\ orders[s].items[i].price > 0
  /\ \A e \in refusedApplied : e[1] # "add_item_to_order"

\* C8: an order holds at most one line per (name, size) and the line's
\* quantity is the sum of the quantities of the accepted adds for that pair.
C8_MergedQuantities ==
  \A s \in DOMAIN orders :
    LET items == orders[s].items IN
    /\ \A i, j \in 1..Len(items) :
         (items[i].name = items[j].name /\ items[i].size = items[j].size)
           => i = j
    /\ \A i \in 1..Len(items) :
         /\ <<s, items[i].name, items[i].size>> \in DOMAIN accepted
         /\ items[i].quantity = accepted[<<s, items[i].name, items[i].size>>]
    /\ \A k \in DOMAIN accepted :
         k[1] = s => \E i \in 1..Len(items) :
                       items[i].name = k[2] /\ items[i].size = k[3]

\* C1: whatever the interleaving of the finalization triggers (the 2 s
\* confirm callback, the done-phrase check, Twilio 'stop', the socket
\* 'close'), logOrder is invoked at most once for a call's order and
\* order.logged goes from false to true at most once.
C1_LoggedAtMostOnce ==
  \A s \in DOMAIN orders :
    /\ loggedFlips[s] <= 1
    /\ Cardinality({i \in 1..Len(logOrderCalls) : logOrderCalls[i].sid = s}) <= 1

\* the confirm callback logged the order and the socket closed afterwards
C1_Witness ==
  /\ ~wsOpen
  /\ \E i \in 1..Len(logOrderCalls) :
       /\ logOrderCalls[i].via = "confirmTimer"
       /\ orders[logOrderCalls[i].sid].logged
       /\ loggedFlips[logOrderCalls[i].sid] = 1

\* C2: no finalization path passes to logOrder an order whose customerName
\* is empty, or a delivery order whose address is empty.
C2_LoggedOrdersComplete ==
  \A i \in 1..Len(logOrderCalls) :
    /\ Truthy(logOrderCalls[i].customerName)
    /\ logOrderCalls[i].deliveryMethod = "delivery"
         => Truthy(logOrderCalls[i].address)

\* C7: once set_address has been called with a non-empty address for a
\* call, the order's deliveryMethod is 'delivery', whatever the order of the
\* set_delivery_method and set_address calls.
C7_AddressImpliesDelivery ==
  \A s \in addressCalled \cap activeOrders :
    orders[s].deliveryMethod = "delivery"

\* C9: set_delivery_method is accepted only for 'pickup' or 'delivery'
\* (case-insensitive); any other value leaves deliveryMethod unchanged, in
\* every handler.
C9_OnlyValidMethods ==
  /\ \A s \in DOMAIN orders :
       orders[s].deliveryMethod = Null
         \/ ToLowerCase(orders[s].deliveryMethod) \in {"pickup", "delivery"}
  /\ \A e \in refusedApplied : e[1] # "set_delivery_method"

\* accepted adds of 2 and of 3 for one pair stand as one line of 5
C8_Witness ==
  \E s \in DOMAIN orders :
    /\ Len(orders[s].items) = 1
    /\ orders[s].items[1].quantity = 5
    /\ accepted[<<s, orders[s].items[1].name, orders[s].items[1].size>>] = 5

\* C4: every response created while the caller is speaking is cancelled,
\* and no audio delta of such a response reaches the caller.
C4_NoAudioWhileSpeaking ==
  /\ respWhileSpeaking => respCancelSent
  /\ "createdWhileSpeaking" \notin audioToCaller

C6_CreatesDebounced == createGap = -1 \/ createGap >= MIN_DEBOUNCE_MS

\* the pairs <<new, last>> of utterances that are the same once lower-cased
\* or share more than 75% of their words longer than two characters
RepeatPairs ==
  {<<u, u>> : u \in Utterances \ {<<>>}}
    \cup ({SayWhatElse, SayWhatElseCaps, SayWhatElseToday}
            \X {SayWhatElse, SayWhatElseCaps, SayWhatElseToday})

\* C10: a completed utterance is flagged exactly when it repeats the last
\* tracked one (exact match or more than 75% shared words) within 10 s;
\* flagging injects exactly one corrective system message and leaves
\* consecutiveSimilarResponses at 0; an utterance that is not flagged
\* injects none.
C10_LoopBroken ==
  /\ lastUtterance.flagged <=>
       /\ lastUtterance.prev # <<>>
       /\ lastUtterance.age < LoopWindowMs
       /\ <<lastUtterance.text, lastUtterance.prev>> \in RepeatPairs
  /\ lastUtterance.flagged
       => (loopBreakCount = 1 /\ consecutiveSimilarResponses = 0)
  /\ ~lastUtterance.flagged => loopBreakCount = 0

\* a near repeat (4 of 5 words shared) was flagged and answered with one
\* corrective message
C10_Witness ==
  /\ lastUtterance.flagged
  /\ lastUtterance.text = SayWhatElseToday
  /\ lastUtterance.prev = SayWhatElse
  /\ loopBreakCount = 1
  /\ consecutiveSimilarResponses = 0

\* C11: every 'start', whatever the socket carried before, leaves a fresh
\* order (no items; deliveryMethod, address, customerName, paymentMethod
\* unset; not confirmed, not logged) registered under the new streamSid and
\* the turn-taking and bookkeeping state at its initial value
C11_StartResetsEverything ==
  [][callCount' # callCount =>
       /\ order' = streamSid'
       /\ streamSid' \in activeOrders'
       /\ orders'[streamSid'].items = <<>>
       /\ orders'[streamSid'].deliveryMethod = Null
       /\ orders'[streamSid'].address = Null
       /\ orders'[streamSid'].customerName = Null
       /\ orders'[streamSid'].paymentMethod = Null
       /\ orders'[streamSid'].confirmed = FALSE
       /\ orders'[streamSid'].logged = FALSE
       /\ ~userIsSpeaking'
       /\ ~responseInProgress'
       /\ ~openaiReady'
       /\ ~initialGreetingTriggered'
       /\ greetingCompletedTimestamp' = 0
       /\ preConnectionAudioQueue' = <<>>
       /\ lastAIResponse' = <<>>
       /\ consecutiveSimilarResponses' = 0
       /\ recentResponses' = 0]_vars

\* a second 'start' has just run on a socket whose first call had an order
\* with items and a name, a ready endpoint, a speaking caller, a response in
\* progress and a tracked utterance
C11_Witness ==
  /\ callCount = 2
  /\ streamSid = 2
  /\ startSaw.items > 0
  /\ startSaw.named
  /\ startSaw.confirmed
  /\ startSaw.openaiReady
  /\ startSaw.initialGreetingTriggered
  /\ startSaw.greeted
  /\ startSaw.userIsSpeaking
  /\ startSaw.responseInProgress
  /\ startSaw.tracked
  /\ startSaw.recent > 0
  /\ orders[2].items = <<>>
  /\ ~orders[2].confirmed
  /\ ~userIsSpeaking
  /\ ~openaiReady
  /\ connectPending # {}

\* C12: once the Twilio socket has closed, activeOrders holds no entry for
\* any streamSid that was started on that socket
C12_NoSessionAfterClose == ~wsOpen => activeOrders = {}

\* C13: a session older than the staleness threshold when the periodic
\* sweep runs is evicted by it: after a sweep, activeOrders holds no session
\* that had been started more than 10 minutes before that sweep
C13_StaleSessionsEvicted ==
  \A s \in activeOrders :
    sweepsDone > 0 =>
      (Epoch + sweepsDone * SweepInterval) - startedAt[s] <= StaleOrderMs

\* the chunks of a sequence of append messages, in the order sent
RECURSIVE Flatten(_)
Flatten(msgs) == IF msgs = <<>> THEN <<>> ELSE Head(msgs) \o Flatten(Tail(msgs))

\* C14: caller audio reaches the endpoint in arrival order: the chunks sent
\* so far, followed by those still held back, are in strictly increasing
\* arrival order, so none is sent twice or ahead of an earlier one
C14_AudioInArrivalOrder ==
  LET all == Flatten(audioSent) \o preConnectionAudioQueue IN
  \A i, j \in DOMAIN all : i < j => all[i] < all[j]

\* C15: preConnectionAudioQueue never holds more than 100 chunks; a chunk
\* that is held back goes to the end of the queue, and when the queue is
\* full the oldest chunk is dropped to make room for it
C15_QueueBounded ==
  [][/\ Len(preConnectionAudioQueue') <= MaxQueuedChunks
     /\ (chunkCount' # chunkCount /\ UNCHANGED audioSent) =>
          preConnectionAudioQueue' =
            (IF Len(preConnectionAudioQueue) = MaxQueuedChunks
             THEN Tail(preConnectionAudioQueue)
             ELSE preConnectionAudioQueue) \o <<chunkCount'>>]_vars

\* more chunks arrived than the queue takes: it is full and starts after the
\* dropped ones
C15_Witness ==
  /\ chunkCount > MaxQueuedChunks
  /\ Len(preConnectionAudioQueue) = MaxQueuedChunks
  /\ preConnectionAudioQueue[1] = chunkCount - MaxQueuedChunks + 1
  /\ preConnectionAudioQueue[MaxQueuedChunks] = chunkCount

\* C17: no failure of the endpoint ends the call: while the Twilio socket
\* is open the started session stays in activeOrders and the orchestrator
\* has written no 'stop' event to the Twilio socket
C17_FailuresKeepCall ==
  (wsOpen /\ callCount > 0) =>
    (streamSid \in activeOrders /\ ~stopSentToTwilio)

\* a connectToOpenAI call is under way or armed
ReconnectPending ==
  \/ connectPending # {}
  \/ \E t \in BagToSet(timers) :
       t.kind \in {"retryConnection", "errorReconnect", "openReconnect"}

\* C18: an error or unexpected closure of the endpoint socket during a call
\* triggers a reconnect: whenever the socket of a live call has failed, a
\* connectToOpenAI call is under way or armed
C18_ClosureTriggersReconnect ==
  (wsOpen /\ streamSid \in activeOrders /\ openaiClient \in {"errored", "closed"})
    => ReconnectPending

\* C19: reconnect attempts are bounded: no failure path makes more than
\* maxRetries connectToOpenAI calls in a row without a session coming up
C19_ReconnectsBounded ==
  \A via \in DOMAIN reconnectChain : reconnectChain[via] <= maxRetries

\* the completeness gate: a priced item, a customer name, a delivery
\* method, and an address when the method is delivery
PassesGate(o) ==
  /\ Len(PricedItems(o.items)) > 0
  /\ HasName(o)
  /\ HasDeliveryMethod(o)
  /\ HasAddress(o)

\* C20: when the call has terminated (the Twilio socket has closed, with or
\* without a 'stop' before), every order that passes the completeness gate
\* has been handed to logOrder
C20_CompleteOrdersLogged ==
  ~wsOpen =>
    \A s \in DOMAIN orders :
      PassesGate(orders[s]) =>
        \E k \in DOMAIN logOrderCalls : logOrderCalls[k].sid = s

\* what belongs to the first connection's calls: its closure state and the
\* entries of the module-level maps under its streamSids
MainView ==
  <<streamSid, order,
    [s \in DOMAIN orders \ {PeerSid} |-> orders[s]],
    activeOrders \ {PeerSid},
    [s \in DOMAIN lastResponseTimestamps \ {PeerSid} |-> lastResponseTimestamps[s]],
    clientVars, responseInProgress, userIsSpeaking, greetVars, loopVars,
    preConnectionAudioQueue>>

\* what belongs to the second connection's call
PeerView ==
  <<peerWsOpen, peerStreamSid, peerUserIsSpeaking,
    IF PeerSid \in DOMAIN orders THEN <<orders[PeerSid]>> ELSE <<>>,
    PeerSid \in activeOrders, TimestampOf(PeerSid)>>

\* C16: with two calls in progress, an event handled for one call changes
\* nothing of the other call: not its order, not its activeOrders entry, not
\* its debounce stamp, not its turn-taking state
C16_CallsIsolated ==
  [][/\ peerStep' # peerStep => MainView' = MainView
     /\ peerStep' = peerStep => PeerView' = PeerView]_vars

\* both calls are in progress, each with its own quantity of soda, one
\* caller speaking and the other not, and both have stamped a response
C16_Witness ==
  /\ streamSid = 1
  /\ peerStreamSid = PeerSid
  /\ {1, PeerSid} \subseteq activeOrders
  /\ Len(orders[1].items) = 1
  /\ orders[1].items[1].quantity = 1
  /\ Len(orders[PeerSid].items) = 1
  /\ orders[PeerSid].items[1].quantity = 2
  /\ userIsSpeaking
  /\ ~peerUserIsSpeaking
  /\ TimestampOf(1) > 0
  /\ TimestampOf(PeerSid) > 0

\* a callback that may send the follow-up response.create is armed
RetryArmed(ts) ==
  \E t \in BagToSet(ts) : t.kind \in {"rateLimitRetry", "errorRecovery"}

\* C21: after every response.done, whatever its status, responseInProgress
\* is false or a retry has been armed
C21_FlagClearedAfterDone ==
  [][(epResponse # "none" /\ epResponse' = "none")
       => (~responseInProgress' \/ RetryArmed(timers'))]_vars

\* C22: when the response.created handler decided to cancel and its
\* response.cancel could not be sent, responseInProgress is false afterwards
C22_FailedCancelClearsFlag ==
  (createdOutcome.attempted /\ ~createdOutcome.cancel)
    => ~createdOutcome.inProgress

\* a response.created arrived while the caller was speaking and a response
\* was marked in progress, and the cancel could not be sent: the client is
\* a socket that is still connecting
C22_Witness ==
  /\ createdOutcome.attempted
  /\ createdOutcome.speaking
  /\ ~createdOutcome.cancel
  /\ ~createdOutcome.inProgress
  /\ openaiClient = "connecting"
  /\ orphanClient

\* C23: no confirmation response.create scheduled after an order-mutating
\* tool call is sent while the caller is speaking or while the time since
\* the greeting anchor is inside the silence period
C23_ConfirmationsHeldBack ==
  [][<<lastCreateAt, createGap>>' # <<lastCreateAt, createGap>>
       => (~userIsSpeaking /\ ~InPostGreetingPeriod)]_vars

\* the record logOrder was last called with
LastLogged == logOrderCalls[Len(logOrderCalls)]

\* C24: a confirm_order tool call sets confirmed and does not call logOrder;
\* the confirm path logs only from its 2 s callback, from the order as it is
\* at that moment
C24_ConfirmSetsFlagLogsLater ==
  [][/\ confirmCalled' # confirmCalled
          => /\ orders'[streamSid].confirmed
             /\ logOrderCalls' = logOrderCalls
     /\ (logOrderCalls' # logOrderCalls /\ LastLogged'.via = "confirmTimer")
          => /\ Due("confirm") # {}
             /\ LastLogged'.customerName = orders[streamSid].customerName
             /\ LastLogged'.deliveryMethod = orders[streamSid].deliveryMethod
             /\ LastLogged'.address = orders[streamSid].address]_vars

\* C25: an order is confirmed only if a confirm_order tool call was
\* processed for its call
C25_ConfirmedOnlyByToolCall ==
  \A s \in DOMAIN orders : orders[s].confirmed => s \in confirmCalled

\* the fields of every order that hold what was ordered and for whom
OrderFields ==
  [s \in DOMAIN orders |->
     <<orders[s].items, orders[s].deliveryMethod, orders[s].address,
       orders[s].customerName, orders[s].customerPhone,
       orders[s].paymentMethod>>]

\* an event of the endpoint that is not a tool call
NonToolEvent ==
  \/ \E u \in CallerUtterances : TranscriptionCompleted(u)
  \/ AudioTranscriptDone(SayDone)
  \/ SpeechStarted
  \/ AudioCommitted
  \/ ResponseCreated
  \/ AudioDelta
  \/ ResponseDone("completed", FALSE, FALSE)

\* C26: items, deliveryMethod, address, customerName, customerPhone and
\* paymentMethod change only at tool-call events: every other event leaves
\* them as they are
C26_FieldsChangeOnlyByTools ==
  [][NonToolEvent => OrderFields' = OrderFields]_vars

\* C27: in every reachable state an order holds an address only if its
\* deliveryMethod is 'delivery'; a set_delivery_method('pickup') after
\* set_address leaves no address on a pickup order
C27_AddressOnlyOnDelivery ==
  \A s \in DOMAIN orders :
    Truthy(orders[s].address) => orders[s].deliveryMethod = "delivery"

\* C28: every order handed to the sinks, on the confirm path, the 'stop' path
\* and the socket-close path, has at least one item, only items priced above
\* zero, a non-empty customerName, a deliveryMethod, and an address exactly
\* when the deliveryMethod is 'delivery'
C28_LoggedRecordsPassGate ==
  \A i \in 1..Len(logOrderCalls) :
    LET r == logOrderCalls[i] IN
    /\ Len(r.items) > 0
    /\ \A k \in 1..Len(r.items) : r.items[k].price > 0
    /\ Truthy(r.customerName) /\ Trim(r.customerName) # ""
    /\ Truthy(r.deliveryMethod)
    /\ Truthy(r.address) <=> r.deliveryMethod = "delivery"

\* a sink took the order
AnySinkSucceeded(a) == a.sheets = "ok" \/ a.pos = "ok"

\* the calls of logOrder for the order of sid s
CallsFor(s) == SelectSeq(logOrderCalls, LAMBDA r : r.sid = s)

\* C29: after a logging attempt that failed at every sink the order's logged
\* flag is false again, and after one that a sink took it is true
C29_LoggedFollowsSinks ==
  \A s \in DOMAIN orders :
    CallsFor(s) # <<>> =>
      (orders[s].logged <=> AnySinkSucceeded(CallsFor(s)[Len(CallsFor(s))].sinks))

\* the timers of one kind among the pending ones
TimersOf(ts, kind) == {t \in BagToSet(ts) : t.kind = kind}

\* name, delivery method or address still outstanding on the order
Outstanding(o) ==
  \/ ~Truthy(o.customerName)
  \/ ~Truthy(o.deliveryMethod)
  \/ o.deliveryMethod = "delivery" /\ ~Truthy(o.address)

\* C30: a rate-limit failure arms one retry, after the wait the error message
\* names when it names one and after 5 s otherwise, and no generic recovery;
\* when the wait is over the retry is sent if the socket is open and the
\* caller is not speaking or name, delivery method or address are
\* outstanding (what is outstanding then was outstanding when the response
\* failed: no call clears a field)
C30_RateLimitRetried ==
  [][/\ \A g \in Guidances :
          ResponseDoneGuided("failed", FALSE, TRUE, g) =>
            /\ \E t \in TimersOf(timers', "rateLimitRetry") :
                 /\ timers' = timers (+) SetToBag({t})
                 /\ IF g = Null THEN t.due = now + RateLimitWait
                    ELSE /\ t.due >= now + ParseSecondsMs(g)
                         /\ t.due <= now + ParseSecondsMs(g) + RateLimitBuffer
            /\ TimersOf(timers', "errorRecovery") = TimersOf(timers, "errorRecovery")
     /\ ( /\ RateLimitRetryFires
          /\ safeSendToOpenAI
          /\ HasCurrentOrder
          /\ ~userIsSpeaking \/ Outstanding(orders[streamSid]) )
        => responseInProgress'
    ]_vars

\* C31: a failure other than a rate limit, met with the socket open and the
\* caller silent, injects the recovery message and arms one retry 500 ms
\* later; the retry is sent when it is due, the socket open, the caller
\* silent, no response under way at the endpoint and no response.create sent
\* since the failure
C31_OneGenericRecovery ==
  [][/\ ( /\ ResponseDone("failed", FALSE, FALSE)
          /\ safeSendToOpenAI
          /\ ~userIsSpeaking )
        => /\ ErrorRecoveryText \in epSystemEcho'
           /\ \E t \in TimersOf(timers', "errorRecovery") :
                /\ timers' = timers (+) SetToBag({t})
                /\ t.due = now + ErrorRecoveryDelay
     /\ ( /\ ErrorRecoveryFires
          /\ safeSendToOpenAI
          /\ ~userIsSpeaking
          /\ epResponse = "none"
          /\ \A t \in Due("errorRecovery") :
               lastCreateAt < t.due - ErrorRecoveryDelay )
        => /\ responseInProgress'
           /\ lastCreateAt' = now
    ]_vars

\* C32: every line's quantity is the sum of the quantities of the calls made
\* for its (name, size), each call counted once, also when it surfaced
\* through both events
C32_OneMutationPerCall ==
  \A s \in DOMAIN orders : \A i \in 1..Len(orders[s].items) :
    LET k == <<s, orders[s].items[i].name, orders[s].items[i].size>> IN
    /\ k \in DOMAIN epCalls.expected
    /\ orders[s].items[i].quantity = epCalls.expected[k]

\* arguments that do not parse as JSON, or that lack the name
Malformed(raw) == ~raw.json \/ raw.name = Null

\* C33: an add_item_to_order call whose arguments do not parse or lack the
\* name leaves the order as it was, in both handlers
C33_MalformedCallsDropped ==
  [][\A raw \in RawArgs :
       (Malformed(raw) /\ (ItemDoneAddItemRaw(raw) \/ PartAddItemRaw(raw)))
         => orders' = orders]_vars

\* the sizes an item declares, "regular" when it declares none
DeclaredSizes(data) ==
  IF Len(data.sizes) > 0 THEN {data.sizes[i] : i \in 1..Len(data.sizes)}
  ELSE {"regular"}

\* C34: every stored line of a menu item carries a size the item declares
\* and the price of that size, and no two lines share an item and a price
\* (an add without a size and a later add naming that size are one line)
C34_SizeAndPriceConsistent ==
  \A s \in DOMAIN orders :
    LET items == orders[s].items IN
    /\ \A i \in 1..Len(items) :
         items[i].name \in DOMAIN MenuOf(menu) =>
           /\ items[i].size \in DeclaredSizes(MenuOf(menu)[items[i].name])
           /\ items[i].price = PriceMapGet(MenuOf(menu)[items[i].name], items[i].size)
    /\ \A i, j \in 1..Len(items) :
         (items[i].name = items[j].name /\ items[i].price = items[j].price)
           => i = j

\* C35: every line of every order has a quantity that is a positive integer
C35_QuantitiesPositive ==
  \A s \in DOMAIN orders :
    \A i \in 1..Len(orders[s].items) : orders[s].items[i].quantity >= 1

\* C36 as stated: userIsSpeaking returns to false only on
\* 'input_audio_buffer.committed'
C36_AsStated ==
  [][(userIsSpeaking /\ ~userIsSpeaking') => AudioCommitted]_vars

\* C36: userIsSpeaking becomes true only on 'speech_started' and returns to
\* false only on 'committed' or on a 'start' of the media stream;
\* 'speech_stopped' leaves it as it is, and a response created between
\* 'stopped' and 'committed' is handled as created while the caller speaks
C36_SpeakingFlagFrame ==
  [][/\ (~userIsSpeaking /\ userIsSpeaking') => SpeechStarted
     /\ (userIsSpeaking /\ ~userIsSpeaking') => (AudioCommitted \/ TwilioRestart)
     /\ (epSpeech = "idle" /\ epSpeech' = "stopped")
          => userIsSpeaking' = userIsSpeaking
     /\ (ResponseCreated /\ epSpeech = "stopped" /\ userIsSpeaking)
          => /\ createdOutcome'.speaking
             /\ streamSid = clientSid
                  => (createdOutcome'.attempted /\ ~responseInProgress')]_vars

\* a response was created after 'speech_stopped' and before 'committed'
C36_Witness ==
  /\ createdOutcome.heard = "stopped"
  /\ createdOutcome.speaking
  /\ epSpeech = "stopped"
  /\ userIsSpeaking
  /\ epResponse # "none"

\* C37: the echo of a system message the orchestrator injected mid-call
\* (loop break, error recovery) neither moves the greeting anchor nor arms
\* the greeting fallback
C37_AnchorNotMovedMidCall ==
  [][\A text \in epSystemEcho :
       SystemItemCreated(text)
         => /\ greetingCompletedTimestamp' = greetingCompletedTimestamp
            /\ TimersOf(timers', "greetingFallback")
                 = TimersOf(timers, "greetingFallback")]_vars

\* C38: no call gets the greeting system message twice, whatever the
\* session.updated events, the greeting retries and the reconnects
C38_GreetingSentOncePerCall ==
  \A i, j \in 1..Len(greetingSends) :
    greetingSends[i][1] = greetingSends[j][1] => i = j

\* after a reconnect the greeting went out on a retry, and the session.updated
\* of the socket that replaced the first one has been handled without another
C38_Witness ==
  /\ orphanClient
  /\ Len(greetingSends) = 1
  /\ greetingSends[1][2] > 1
  /\ ClientLive /\ openaiReady /\ ~epSessionPending /\ ~orphanSessionPending
  /\ initialGreetingTriggered

\* C39: while the endpoint's response is in flight and marked in progress,
\* the flag stays set and no response.create goes out
C39_NoCreateWhileInFlight ==
  [][(epResponse = "active" /\ epResponse' = "active" /\ responseInProgress)
       => (responseInProgress' /\ createObs' = createObs)]_vars

\* what holds of a call of logOrderToGoogleSheets at every moment: at most
\* three appends, each but the last failed with a retryable error, 1 s and
\* then 2 s waited between them, no append without a client or without
\* items, and true returned exactly when the last append succeeded
SheetsCallBounded ==
  LET call == sheetsCall IN
  /\ Len(call.appends) <= 3
  /\ \A i \in 1..Len(call.appends) - 1 :
       call.appends[i] \in {"502", "503", "429", "ECONNRESET", "ETIMEDOUT"}
  /\ call.delays \in {<<>>, <<1000>>, <<1000, 2000>>}
  /\ call.pc = "append" => Len(call.delays) = Len(call.appends)
  /\ call.pc = "done" /\ call.appends # <<>>
       => Len(call.delays) = Len(call.appends) - 1
  /\ (~call.configured \/ call.items = 0) => call.appends = <<>>
  /\ call.pc = "done" =>
       (call.result = "true"
          <=> (call.appends # <<>> /\ call.appends[Len(call.appends)] = "ok"))
  /\ call.pc # "done" => call.result = "none"

\* C40: logOrderToGoogleSheets returns, after at most three appends, retried
\* only on retryable errors after 1 s and 2 s, with true exactly for a
\* successful append and no append without a client or without items
C40_SheetsLogTerminates ==
  /\ []SheetsCallBounded
  /\ (sheetsCall.pc # "idle") ~> (sheetsCall.pc = "done")

\* the third append succeeded after two retryable failures
C40_Witness ==
  /\ sheetsCall.pc = "done"
  /\ Len(sheetsCall.appends) = 3
  /\ sheetsCall.delays = <<1000, 2000>>
  /\ sheetsCall.result = "true"

====
